---- MODULE Spec2Model ----
(***************************************************************************)
(* The taperipper async runtime: the global Runtime registry               *)
(* (runtime/mod.rs), the per-core CoreExecutor and its work-stealing loop  *)
(* (runtime/executor.rs), seen as a state machine.                         *)
(*                                                                         *)
(* A "cpu" is one thread of control (a physical core).  Every cpu is       *)
(* either outside any run loop (pc = "out"), in the middle of              *)
(* make_scheduler, somewhere in CoreExecutor::run, or halted: both panic   *)
(* hooks of the repository (runtime/panic.rs) end in `loop { hlt }`, so a  *)
(* panic never unwinds and never returns.                                  *)
(*                                                                         *)
(* The maitake scheduler, injector and stealer are a library outside the   *)
(* repository.  They are modelled by their documented interface:           *)
(*   - a queue has many producers and at most one consumer at a time;      *)
(*   - try_steal fails (Empty) on a queue whose task count is 0 and        *)
(*     (Busy) while another consumer holds the queue, otherwise it         *)
(*     yields a Stealer that holds the consumer side until it is dropped   *)
(*     and remembers the task count it saw (initial_task_count);           *)
(*   - Stealer::spawn_n(dst, max) moves up to max tasks, one at a time,    *)
(*     from the head of the source to the tail of dst;                     *)
(*   - StaticScheduler::tick dequeues and polls tasks until the queue is   *)
(*     empty or busy and reports has_remaining iff tasks are still queued. *)
(***************************************************************************)
EXTENDS Naturals, Integers, Sequences, FiniteSets

\* smp::MAX_CORES (2048 in the source), scaled down
MAX_CORES == 2
\* CoreExecutor::MAX_STEAL_ATTEMPTS (8 in the source), scaled down
MAX_STEAL_ATTEMPTS == 2
\* CoreExecutor::MAX_TASKS_TO_STEAL (64 in the source), scaled down
MAX_TASKS_TO_STEAL == 1
\* how many tasks are ever spawned
MaxTasks == 5
\* CoreLocals::MAX_LOCALS (64 in the source), scaled down
MAX_LOCALS == 2
\* how deep with() calls nest on a cpu: a key's init function may call
\* with() again
MaxDepth == 2
\* the width of the cycle counter and of `elapsed` (u64 in the source),
\* scaled down; also the bound of the shift loop (64 in the source)
TSC_BITS == 8
\* the width `elapsed >> sft` is converted to (u32 in the source), scaled down
U32_BITS == 6
\* ELAPSE_DURATION in nanoseconds (50_000_000 in the source), scaled down
ELAPSE_NANOS == 20
\* the largest number of active cores a victim is picked among
MaxActive == 6
\* _duration_from_rdtsc's MAX_ATTEMPTS
MAX_ATTEMPTS == 5

\* the threads of control
Cpus == {0, 1}
Slots == 0 .. (MAX_CORES - 1)
Tasks == 1 .. MaxTasks
\* the slots of a CoreLocals block
LocalSlots == 0 .. (MAX_LOCALS - 1)
\* the CoreLocal statics: one more than a block has slots
Keys == 1 .. (MAX_LOCALS + 1)
\* Option::None for a scheduler reference or a stealer source
None == -1
\* the stealer source that stands for RUNTIME.sched_inject
INJ == -2

Min(a, b) == IF a < b THEN a ELSE b

\* u32::MAX
U32_MAX == 2 ^ U32_BITS - 1
\* the values of the cycle counter
U64 == 0 .. (2 ^ TSC_BITS - 1)

VARIABLES
    cores,              \* Runtime::cores
    schedulers,         \* Runtime::schedulers[i]: TRUE once the InitOnce is initialized
    run_queue,          \* the run queue of schedulers[i]
    sched_inject,       \* the queue of Runtime::sched_inject
    running,            \* CoreExecutor::running of the executor of slot i
    CORE_SCHED,         \* the core-local CORE_SCHED cell of each cpu
    locals,             \* CoreLocals::is_initialized() on each cpu
    timer,              \* MAITAKE_TIMER is set
    pc,                 \* where each cpu is
    self,               \* the executor (slot) whose run() the cpu is in
    next,               \* make_scheduler's local `next`
    task,               \* the task the cpu is polling
    attempts_remaining, \* seize's local
    stealer,            \* the source whose Stealer the cpu holds
    snapshot,           \* Stealer::initial_task_count()
    theft_count,        \* the max handed to spawn_n
    stolen,             \* spawn_n's running count
    spawned,            \* number of tasks spawned so far
    polled,             \* how often each task has been polled to completion
    run_errors,         \* "Task executor for core already running!" was logged an odd number of times
    was_running,        \* what the latest stop() returned
    GS_BASE,            \* the GS segment base of each cpu
    blocks,             \* the CoreLocals blocks allocated so far: each one's slot table
    NEXT_SLOT,          \* CoreLocal::next_slot's counter
    slot,               \* the Lazy<usize> slot index of each CoreLocal key
    frames,             \* the with() calls each cpu is inside, outermost first
    made,               \* how often each key's init function has returned on each cpu
    warned,             \* "Core locals already initialized on this core!" was logged on the cpu
    MAITAKE_TIMER,      \* the OnceLock<Timer> of runtime/time.rs
    GLOBAL_TIMER,       \* the timer set_global_timer installed
    timer_ref,          \* init_timer's local `timer` on each cpu inside it
    cal_pc,             \* where _duration_from_rdtsc is
    attempt,            \* _duration_from_rdtsc's loop variable
    elapsed,            \* tsc_end - tsc_start of the attempt
    sft,                \* _duration_from_rdtsc's local `sft`
    duration,           \* the nanoseconds _duration_from_rdtsc returned
    RDTSC_SHIFT,        \* the static RDTSC_SHIFT
    has_remaining,      \* tick's local `tck.has_remaining` on each cpu
    pick_pc,            \* where the victim round of seize is
    seize_core_id,      \* CoreExecutor::core_id of the executor in the round
    seize_active,       \* seize's local `active`
    seize_index,        \* seize's local `index`
    shut_down,          \* run, line 107: the shutdown of the executor has been logged
    clock_pc,           \* where new_clock() is
    ts_frequency,       \* ts_props.frequency, None without the Timestamp protocol
    clock_tick          \* the tick duration of the Clock built, in ns

rtVars == <<cores, schedulers, run_queue, sched_inject, running, timer>>
cpuVars == <<CORE_SCHED, locals, pc, self, next, task>>
seizeVars == <<attempts_remaining, stealer, snapshot, theft_count, stolen>>
taskVars == <<spawned, polled>>
stopVars == <<was_running>>
localVars == <<GS_BASE, blocks, NEXT_SLOT, slot, frames, made, warned>>
timeVars == <<MAITAKE_TIMER, GLOBAL_TIMER, timer_ref>>
calVars == <<cal_pc, attempt, elapsed, sft, duration, RDTSC_SHIFT>>
tickVars == <<has_remaining>>
pickVars == <<pick_pc, seize_core_id, seize_active, seize_index>>
logVars == <<shut_down>>
clockVars == <<clock_pc, ts_frequency, clock_tick>>
platVars == <<stopVars, localVars, timeVars, calVars, tickVars, pickVars, logVars, clockVars>>
vars == <<rtVars, cpuVars, seizeVars, taskVars, run_errors, platVars>>

\* the state at boot, the firmware having left gs as the GS bases
Boot(gs) ==
    /\ cores = 0
    /\ schedulers = [i \in Slots |-> FALSE]
    /\ run_queue = [i \in Slots |-> <<>>]
    /\ sched_inject = <<>>
    /\ running = [i \in Slots |-> FALSE]
    /\ CORE_SCHED = [c \in Cpus |-> None]
    /\ locals = [c \in Cpus |-> FALSE]
    /\ timer = FALSE
    /\ pc = [c \in Cpus |-> "out"]
    /\ self = [c \in Cpus |-> None]
    /\ next = [c \in Cpus |-> 0]
    /\ task = [c \in Cpus |-> 0]
    /\ attempts_remaining = [c \in Cpus |-> 0]
    /\ stealer = [c \in Cpus |-> None]
    /\ snapshot = [c \in Cpus |-> 0]
    /\ theft_count = [c \in Cpus |-> 0]
    /\ stolen = [c \in Cpus |-> 0]
    /\ spawned = 0
    /\ polled = [t \in Tasks |-> 0]
    /\ run_errors = FALSE
    /\ was_running = FALSE
    /\ GS_BASE = gs
    /\ blocks = <<>>
    /\ NEXT_SLOT = 0
    /\ slot = [k \in Keys |-> None]
    /\ frames = [c \in Cpus |-> <<>>]
    /\ made = [c \in Cpus |-> [k \in Keys |-> 0]]
    /\ warned = [c \in Cpus |-> FALSE]
    /\ MAITAKE_TIMER = None
    /\ GLOBAL_TIMER = None
    /\ timer_ref = [c \in Cpus |-> None]
    /\ cal_pc = "idle"
    /\ attempt = 0
    /\ elapsed = 0
    /\ sft = 0
    /\ duration = 0
    /\ RDTSC_SHIFT = U32_MAX
    /\ has_remaining = [c \in Cpus |-> FALSE]
    /\ pick_pc = "idle"
    /\ seize_core_id = 0
    /\ seize_active = 0
    /\ seize_index = 0
    /\ shut_down = [e \in Slots |-> FALSE]
    /\ clock_pc = "idle"
    /\ ts_frequency = None
    /\ clock_tick = None

Init == Boot([c \in Cpus |-> 0])

----------------------------------------------------------------------------
(* The queues *)

\* the queue a stealer source names
Queue(src) == IF src = INJ THEN sched_inject ELSE run_queue[src]

\* some consumer (a Stealer) holds the queue of src
Busy(src) == \E d \in Cpus : stealer[d] = src

TryStealOk_NoBusy(src) == Len(Queue(src)) > 0
TryStealOk_Polling(src) ==
    /\ Len(Queue(src)) > 0
    /\ ~\E d \in Cpus : stealer[d] = src
    /\ ~\E v \in Cpus : pc[v] = "poll" /\ self[v] = src
\* try_steal() on the queue of src is Ok: it is neither Empty nor Busy
TryStealOk(src) == Len(Queue(src)) > 0 /\ ~Busy(src)

\* the queue q of dst after task t is enqueued on every target
Enqueued(q, dst, targets, t) == IF dst \in targets THEN Append(q, t) ELSE q

\* a cpu that panics: the panic hook halts it for good
Halt(c) == pc' = [pc EXCEPT ![c] = "halt"]

----------------------------------------------------------------------------
(* platform/local.rs, runtime/time.rs: what the runtime needs of them *)

\* CoreLocals::init() on cpu c: installs the block, or warns and returns
CoreLocalsInit(c) ==
    /\ pc[c] = "out"
    /\ locals' = [locals EXCEPT ![c] = TRUE]
    /\ UNCHANGED <<rtVars, CORE_SCHED, pc, self, next, task, seizeVars, taskVars, run_errors>>
    /\ UNCHANGED platVars

\* init_timer() on cpu c: the first call installs the global timer, a later
\* one panics in set_global_timer(..).expect(..)
InitTimer(c) ==
    /\ pc[c] = "out"
    /\ IF timer
         THEN Halt(c) /\ UNCHANGED timer
         ELSE timer' = TRUE /\ UNCHANGED pc
    /\ UNCHANGED <<cores, schedulers, run_queue, sched_inject, running,
                   CORE_SCHED, locals, self, next, task, seizeVars, taskVars, run_errors>>
    /\ UNCHANGED platVars

----------------------------------------------------------------------------
(* runtime/mod.rs *)

\* Runtime::active_cores
active_cores == cores

FetchAdd_NoIncrement(n) == n
\* the value cores.fetch_add(1) leaves in the counter
FetchAdd(n) == n + 1

\* the assertion of make_scheduler: next < smp::MAX_CORES
SlotFree(n) == n < MAX_CORES

SlotOf_First(n) == 0
\* the slot the claim `n` is given: self.schedulers[next]
SlotOf(n) == n

\* make_scheduler, line 50: let next = self.cores.fetch_add(1)
MakeSchedulerClaim(c) ==
    /\ pc[c] = "out"
    /\ next' = [next EXCEPT ![c] = cores]
    /\ cores' = FetchAdd(cores)
    /\ pc' = [pc EXCEPT ![c] = "make"]
    /\ UNCHANGED <<schedulers, run_queue, sched_inject, running, timer,
                   CORE_SCHED, locals, self, task, seizeVars, taskVars, run_errors>>
    /\ UNCHANGED platVars

\* make_scheduler, lines 53-63 and the rest of CoreExecutor::new: the
\* assertion, then InitOnce::init (which panics on an initialized cell), then
\* the executor is built with running = false
MakeSchedulerInit(c) ==
    /\ pc[c] = "make"
    /\ IF SlotFree(next[c]) /\ SlotOf(next[c]) \in Slots /\ ~schedulers[SlotOf(next[c])]
         THEN /\ schedulers' = [schedulers EXCEPT ![SlotOf(next[c])] = TRUE]
              /\ pc' = [pc EXCEPT ![c] = "out"]
         ELSE /\ Halt(c)
              /\ UNCHANGED schedulers
    /\ next' = [next EXCEPT ![c] = 0]
    /\ UNCHANGED <<cores, run_queue, sched_inject, running, timer,
                   CORE_SCHED, locals, self, task, seizeVars, taskVars, run_errors>>
    /\ UNCHANGED platVars

RuntimeSeize_NoBusy(core) == schedulers[core] /\ Len(Queue(core)) > 0
\* Runtime::seize(core): schedulers[core].try_get()?.try_steal().ok()
RuntimeSeize(core) == schedulers[core] /\ TryStealOk(core)

SpawnTargets_Injector(c) == {INJ}
SpawnTargets_Both(c) == IF CORE_SCHED[c] # None THEN {CORE_SCHED[c], INJ} ELSE {INJ}
\* spawn, lines 78-86: the queue(s) the new task is enqueued on
SpawnTargets(c) == IF CORE_SCHED[c] # None THEN {CORE_SCHED[c]} ELSE {INJ}

\* spawn(future) called on cpu c, from outside any run loop or from inside the
\* task the cpu is polling.  CORE_SCHED.with panics in CoreLocals::current()
\* when the cpu's core locals are not initialized.
Spawn(c) ==
    /\ pc[c] \in {"out", "poll"}
    /\ spawned < MaxTasks
    /\ IF ~locals[c]
         THEN /\ Halt(c)
              /\ UNCHANGED <<run_queue, sched_inject, spawned>>
         ELSE /\ spawned' = spawned + 1
              /\ run_queue' = [i \in Slots |->
                                 Enqueued(run_queue[i], i, SpawnTargets(c), spawned + 1)]
              /\ sched_inject' = Enqueued(sched_inject, INJ, SpawnTargets(c), spawned + 1)
              /\ UNCHANGED pc
    /\ UNCHANGED <<cores, schedulers, running, timer, polled,
                   CORE_SCHED, locals, self, next, task, seizeVars, run_errors>>
    /\ UNCHANGED platVars

----------------------------------------------------------------------------
(* runtime/executor.rs *)

\* an executor exists for slot e: CoreExecutor::new has returned it
Executor(e) == schedulers[e]

\* CoreExecutor::stop from any context: compare_exchange(true, false)
Stop(c, e) ==
    /\ pc[c] \in {"out", "poll"}
    /\ Executor(e)
    /\ running' = [running EXCEPT ![e] = FALSE]
    /\ UNCHANGED <<cores, schedulers, run_queue, sched_inject, timer,
                   cpuVars, seizeVars, taskVars, run_errors>>
    /\ UNCHANGED platVars

RunMayEnter_Always(e) == TRUE
\* run, lines 82-85: compare_exchange(false, true) succeeds
RunMayEnter(e) == ~running[e]

GuardDrop_Keep(c) == CORE_SCHED[c]
\* _SchGuard::drop: the value the cpu's CORE_SCHED cell is left with
GuardDrop(c) == None

\* run, lines 82-96, called on cpu c for executor e.  On an executor that is
\* already running it logs the error and returns.  Otherwise it sets the flag
\* and installs the scheduler; CORE_SCHED.with panics on a cpu without core
\* locals, after the flag is set.
Run(c, e) ==
    /\ pc[c] = "out"
    /\ Executor(e)
    /\ IF ~RunMayEnter(e)
         THEN /\ run_errors' = ~run_errors
              /\ UNCHANGED <<running, CORE_SCHED, pc, self>>
         ELSE /\ running' = [running EXCEPT ![e] = TRUE]
              /\ IF locals[c]
                   THEN /\ CORE_SCHED' = [CORE_SCHED EXCEPT ![c] = e]
                        /\ self' = [self EXCEPT ![c] = e]
                        /\ pc' = [pc EXCEPT ![c] = "tick"]
                        /\ UNCHANGED run_errors
                   ELSE /\ Halt(c)
                        /\ UNCHANGED <<CORE_SCHED, self, run_errors>>
    /\ UNCHANGED <<cores, schedulers, run_queue, sched_inject, timer,
                   locals, next, task, seizeVars, taskVars>>
    /\ UNCHANGED platVars

\* tick, line 117, inside sched.tick(): the next task is dequeued and polled
TickDequeue(c) ==
    /\ pc[c] = "tick"
    /\ Len(run_queue[self[c]]) > 0
    /\ ~Busy(self[c])
    /\ task' = [task EXCEPT ![c] = Head(run_queue[self[c]])]
    /\ run_queue' = [run_queue EXCEPT ![self[c]] = Tail(@)]
    /\ pc' = [pc EXCEPT ![c] = "poll"]
    /\ UNCHANGED <<cores, schedulers, sched_inject, running, timer,
                   CORE_SCHED, locals, self, next, seizeVars, taskVars, run_errors>>
    /\ UNCHANGED platVars

\* the task the cpu polls runs to completion (it may have called spawn)
PollDone(c) ==
    /\ pc[c] = "poll"
    /\ polled' = [polled EXCEPT ![task[c]] = Min(@ + 1, 2)]
    /\ task' = [task EXCEPT ![c] = 0]
    /\ pc' = [pc EXCEPT ![c] = "tick"]
    /\ UNCHANGED <<rtVars, CORE_SCHED, locals, self, next, seizeVars, spawned, run_errors>>
    /\ UNCHANGED platVars

\* tick, lines 117-124: sched.tick() ends on an empty or busy queue; then
\* timer().turn(), which panics in unwrap() while no timer is installed; then
\* has_remaining (tasks are still queued) sends run back to tick (line 102),
\* and otherwise seize starts
TickEnd(c) ==
    /\ pc[c] = "tick"
    /\ Len(run_queue[self[c]]) = 0 \/ Busy(self[c])
    /\ IF ~timer
         THEN Halt(c)
         ELSE IF Len(run_queue[self[c]]) > 0
                THEN UNCHANGED pc
                ELSE pc' = [pc EXCEPT ![c] = "seize"]
    /\ UNCHANGED <<rtVars, CORE_SCHED, locals, self, next, task, seizeVars, taskVars, run_errors>>
    /\ UNCHANGED platVars

\* the cpu takes the Stealer of src with `max` as spawn_n's limit
TakeStealer(c, src, max) ==
    /\ stealer' = [stealer EXCEPT ![c] = src]
    /\ snapshot' = [snapshot EXCEPT ![c] = Len(Queue(src))]
    /\ theft_count' = [theft_count EXCEPT ![c] = max]
    /\ stolen' = [stolen EXCEPT ![c] = 0]
    /\ pc' = [pc EXCEPT ![c] = "steal"]

InjectorMax_Halved(len) == Min(len \div 2, MAX_TASKS_TO_STEAL)
InjectorMax_Double(len) == Min(len, 2 * MAX_TASKS_TO_STEAL)
\* seize, lines 130 and 168: spawn_n(&self.sched, Self::MAX_TASKS_TO_STEAL),
\* whatever the count len of the injector
InjectorMax(len) == MAX_TASKS_TO_STEAL

TheftCount_Whole(len) == Min(len, MAX_TASKS_TO_STEAL + 1)
TheftCount_Ceil(len) == Min((len + 1) \div 2, MAX_TASKS_TO_STEAL)
\* seize, lines 156-157: cmp::min(victim.initial_task_count() / 2, MAX_TASKS_TO_STEAL)
TheftCount(len) == Min(len \div 2, MAX_TASKS_TO_STEAL)

\* seize, lines 129-134: the injector is tried first
SeizeInjector(c) ==
    /\ pc[c] = "seize"
    /\ IF TryStealOk(INJ)
         THEN TakeStealer(c, INJ, InjectorMax(Len(sched_inject))) /\ UNCHANGED attempts_remaining
         ELSE /\ attempts_remaining' = [attempts_remaining EXCEPT ![c] = MAX_STEAL_ATTEMPTS]
              /\ pc' = [pc EXCEPT ![c] = "victim"]
              /\ UNCHANGED <<stealer, snapshot, theft_count, stolen>>
    /\ UNCHANGED <<rtVars, CORE_SCHED, locals, self, next, task, taskVars, run_errors>>
    /\ UNCHANGED platVars

VictimIndices_Past(active) == 0 .. active
\* seize, lines 145-151: the indices the victim may be picked from
VictimIndices(active) == IF active = 2 THEN {1} ELSE 0 .. (active - 1)

\* seize, lines 135-164: one round of the loop.  schedulers[index] panics on
\* an index past the array.
SeizeVictim(c) ==
    /\ pc[c] = "victim"
    /\ IF attempts_remaining[c] = 0 \/ active_cores <= 1
         THEN /\ pc' = [pc EXCEPT ![c] = "retry"]
              /\ attempts_remaining' = [attempts_remaining EXCEPT ![c] = 0]
              /\ UNCHANGED <<stealer, snapshot, theft_count, stolen>>
         ELSE \E index \in VictimIndices(active_cores) :
                IF index \notin Slots
                  THEN Halt(c) /\ UNCHANGED seizeVars
                  ELSE IF RuntimeSeize(index)
                         THEN /\ TakeStealer(c, index, TheftCount(Len(Queue(index))))
                              /\ attempts_remaining' = [attempts_remaining EXCEPT ![c] = 0]
                         ELSE /\ attempts_remaining' =
                                    [attempts_remaining EXCEPT ![c] = @ - 1]
                              /\ UNCHANGED <<stealer, snapshot, theft_count, stolen, pc>>
    /\ UNCHANGED <<rtVars, CORE_SCHED, locals, self, next, task, taskVars, run_errors>>
    /\ UNCHANGED platVars

\* seize, lines 167-171: the injector once more, else seize returns 0 and
\* tick returns false
SeizeRetry(c) ==
    /\ pc[c] = "retry"
    /\ IF TryStealOk(INJ)
         THEN TakeStealer(c, INJ, InjectorMax(Len(sched_inject)))
         ELSE /\ pc' = [pc EXCEPT ![c] = "check"]
              /\ UNCHANGED <<stealer, snapshot, theft_count, stolen>>
    /\ UNCHANGED <<rtVars, CORE_SCHED, locals, self, next, task, attempts_remaining,
                   taskVars, run_errors>>
    /\ UNCHANGED platVars

Taken_Kept(q) == q
\* Stealer::spawn_one: what the source queue keeps when its head is taken
Taken(q) == Tail(q)

\* Stealer::spawn_n, one round: the head of the source moves to the tail of
\* the thief's scheduler
StealOne(c) ==
    /\ pc[c] = "steal"
    /\ stolen[c] < theft_count[c]
    /\ Len(Queue(stealer[c])) > 0
    /\ LET src == stealer[c]
           dst == self[c]
           t == Head(Queue(src))
       IN  /\ sched_inject' = IF src = INJ THEN Taken(sched_inject) ELSE sched_inject
           /\ run_queue' = [i \in Slots |->
                 LET q == IF i = src THEN Taken(run_queue[i]) ELSE run_queue[i]
                 IN  IF i = dst THEN Append(q, t) ELSE q]
    /\ stolen' = [stolen EXCEPT ![c] = @ + 1]
    /\ UNCHANGED <<cores, schedulers, running, timer, cpuVars,
                   attempts_remaining, stealer, snapshot, theft_count, taskVars, run_errors>>
    /\ UNCHANGED platVars

\* spawn_n returns and the Stealer is dropped; seize returns the count, and
\* tick returns seize() > 0: run ticks again (line 102) or checks the flag
StealEnd(c) ==
    /\ pc[c] = "steal"
    /\ stolen[c] >= theft_count[c] \/ Len(Queue(stealer[c])) = 0
    /\ stealer' = [stealer EXCEPT ![c] = None]
    /\ snapshot' = [snapshot EXCEPT ![c] = 0]
    /\ theft_count' = [theft_count EXCEPT ![c] = 0]
    /\ stolen' = [stolen EXCEPT ![c] = 0]
    /\ pc' = [pc EXCEPT ![c] = IF stolen[c] > 0 THEN "tick" ELSE "check"]
    /\ UNCHANGED <<rtVars, CORE_SCHED, locals, self, next, task,
                   attempts_remaining, taskVars, run_errors>>
    /\ UNCHANGED platVars

StopRequested_Always(e) == TRUE
StopRequested_Never(e) == FALSE
StopRequested_Running(e) == running[e]
\* run, line 106: !self.is_running()
StopRequested(e) == ~running[e]

\* run, lines 106-110: out of work; return if stop() was called, the guard
\* then clears CORE_SCHED; otherwise loop
RunCheck(c) ==
    /\ pc[c] = "check"
    /\ IF StopRequested(self[c])
         THEN /\ CORE_SCHED' = [CORE_SCHED EXCEPT ![c] = GuardDrop(c)]
              /\ pc' = [pc EXCEPT ![c] = "out"]
              /\ self' = [self EXCEPT ![c] = None]
         ELSE /\ pc' = [pc EXCEPT ![c] = "tick"]
              /\ UNCHANGED <<CORE_SCHED, self>>
    /\ UNCHANGED <<rtVars, locals, next, task, seizeVars, taskVars, run_errors>>
    /\ UNCHANGED platVars

----------------------------------------------------------------------------

Next ==
    \E c \in Cpus :
        \/ CoreLocalsInit(c)
        \/ InitTimer(c)
        \/ MakeSchedulerClaim(c)
        \/ MakeSchedulerInit(c)
        \/ Spawn(c)
        \/ \E e \in Slots : Stop(c, e)
        \/ \E e \in Slots : Run(c, e)
        \/ TickDequeue(c)
        \/ PollDone(c)
        \/ TickEnd(c)
        \/ SeizeInjector(c)
        \/ SeizeVictim(c)
        \/ SeizeRetry(c)
        \/ StealOne(c)
        \/ StealEnd(c)
        \/ RunCheck(c)

Spec == Init /\ [][Next]_vars

\* the cpu is inside the loop of run()
InLoop(c) == pc[c] \in {"tick", "poll", "seize", "victim", "retry", "steal", "check"}

\* one step of the cpu inside run(): a cpu that is in the loop keeps executing
LoopStep(c) ==
    \/ TickDequeue(c)
    \/ PollDone(c)
    \/ TickEnd(c)
    \/ SeizeInjector(c)
    \/ SeizeVictim(c)
    \/ SeizeRetry(c)
    \/ StealOne(c)
    \/ StealEnd(c)
    \/ RunCheck(c)

\* a cpu inside run() goes on executing: nothing preempts the loop
LoopFairness == \A c \in Cpus : WF_vars(LoopStep(c))

\* the cores run independently of each other: a tick whose run queue is free
\* of stealers again and again does not find it Busy every time
TickFairness == \A c \in Cpus : SF_vars(TickDequeue(c))

\* spawn() called while no executor exists yet
SpawnEarly(c) ==
    /\ \A i \in Slots : ~schedulers[i]
    /\ Spawn(c)

\* every spawn() is made before any executor exists; everything else is
\* called at any time
EarlyNext ==
    \E c \in Cpus :
        \/ CoreLocalsInit(c)
        \/ InitTimer(c)
        \/ MakeSchedulerClaim(c)
        \/ MakeSchedulerInit(c)
        \/ SpawnEarly(c)
        \/ \E e \in Slots : Stop(c, e)
        \/ \E e \in Slots : Run(c, e)
        \/ LoopStep(c)

EarlySpec == Init /\ [][EarlyNext]_vars /\ LoopFairness

\* CoreExecutor::new() called when fewer executors exist than there are cores
NewExecutor(c) ==
    /\ cores < Cardinality(Cpus)
    /\ MakeSchedulerClaim(c)

\* spawn() called from outside the run loops, before the last of the
\* executors has started
SpawnOutside(c) ==
    /\ pc[c] = "out"
    /\ \E d \in Cpus : ~InLoop(d)
    /\ Spawn(c)

\* one executor per core, never stopped; trivial tasks, which spawn nothing
TwoCoreNext ==
    \E c \in Cpus :
        \/ CoreLocalsInit(c)
        \/ InitTimer(c)
        \/ NewExecutor(c)
        \/ MakeSchedulerInit(c)
        \/ SpawnOutside(c)
        \/ \E e \in Slots : Run(c, e)
        \/ LoopStep(c)

TwoCoreSpec == Init /\ [][TwoCoreNext]_vars /\ LoopFairness /\ TickFairness

----------------------------------------------------------------------------
(* Where the tasks are *)

\* every queue there is: the injector and the run queue of every slot
Sources == Slots \cup {INJ}

\* the places of the queues that hold task t
Positions(t) ==
    UNION {{<<src, k>> : k \in {j \in 1 .. Len(Queue(src)) : Queue(src)[j] = t}} :
           src \in Sources}

\* the cpus that are polling task t
Pollers(t) == {c \in Cpus : pc[c] = "poll" /\ task[c] = t}


\* the cpus that hold the Stealer of src
Holders(src) == {c \in Cpus : stealer[c] = src}

----------------------------------------------------------------------------
(* C1 *)

\* C1: in every reachable state every task is in at most one place: at most
\* once in one queue (the injector or the run queue of one scheduler); a task
\* that is being polled or has completed is in no queue, and a task that has
\* not been spawned is nowhere.
C1_OneQueue ==
    \A t \in Tasks :
        /\ Cardinality(Positions(t)) <= 1
        /\ Pollers(t) # {} \/ polled[t] > 0 => Positions(t) = {}
        /\ t > spawned => Positions(t) = {} /\ Pollers(t) = {} /\ polled[t] = 0

\* a thief has moved a task out of another scheduler's run queue, and another
\* task waits in the injector
C1_Witness ==
    \E c \in Cpus :
        /\ pc[c] = "steal"
        /\ stealer[c] \in Slots
        /\ stealer[c] # self[c]
        /\ stolen[c] > 0
        /\ Len(sched_inject) > 0

----------------------------------------------------------------------------
(* C2 *)

\* task t is queued in the injector
InInjector(t) == \E k \in 1 .. Len(sched_inject) : sched_inject[k] = t

\* task t is runnable in a scheduler, is being polled or has completed
Scheduled(t) ==
    \/ \E i \in Slots : \E k \in 1 .. Len(run_queue[i]) : run_queue[i][k] = t
    \/ Pollers(t) # {}
    \/ polled[t] > 0

\* C2: when every spawn() is made before any executor exists, the injector
\* holds every task spawned, in order, until an executor exists; every task
\* is at one place of one queue, or being polled by one cpu, or completed
\* once; a task leaves the injector only for the tail of exactly one run queue
\* and never comes back; and once a cpu is inside a run loop every task spawned
\* eventually is in a scheduler, unless the cores panic for want of the global
\* timer or because more than MAX_CORES schedulers were claimed.
C2_InjectorDrains ==
    /\ []((\A i \in Slots : ~schedulers[i]) =>
             sched_inject = [k \in 1 .. spawned |-> k])
    /\ [](\A t \in 1 .. spawned :
             Cardinality(Positions(t)) + Cardinality(Pollers(t)) + polled[t] = 1)
    /\ [][\A t \in Tasks :
            /\ InInjector(t) /\ ~InInjector(t)' =>
                  Cardinality({i \in Slots : run_queue'[i] = Append(run_queue[i], t)}) = 1
            /\ t <= spawned /\ ~InInjector(t) => ~InInjector(t)']_vars
    /\ \A t \in Tasks :
          (t <= spawned /\ \E c \in Cpus : InLoop(c))
              ~> (Scheduled(t) \/ ~timer \/ cores > MAX_CORES)

\* three tasks were spawned before any executor existed, and an executor
\* has since taken the first of them
C2_Witness ==
    /\ sched_inject = <<2, 3>>
    /\ spawned = 3
    /\ timer
    /\ \E c \in Cpus : InLoop(c) /\ run_queue[self[c]] = <<1>>

----------------------------------------------------------------------------
(* C3 *)

----------------------------------------------------------------------------
(* C4, C5 *)

\* C4: while a thief holds the Stealer of a victim's scheduler, it has moved
\* at most min(floor(L / 2), MAX_TASKS_TO_STEAL) tasks, L the victim's queue
\* length seen when the Stealer was taken; so a victim other than the thief
\* keeps at least L minus that many.
C4_StealBound ==
    \A c \in Cpus :
        pc[c] = "steal" /\ stealer[c] \in Slots =>
            LET L == snapshot[c]
                bound == Min(L \div 2, MAX_TASKS_TO_STEAL)
            IN  /\ stolen[c] <= bound
                /\ stealer[c] # self[c] => Len(run_queue[stealer[c]]) >= L - bound

\* a steal from a victim of 4 queued tasks has moved MAX_TASKS_TO_STEAL
\* tasks: half the queue would have been more
C4_Witness ==
    \E c \in Cpus :
        /\ pc[c] = "steal"
        /\ stealer[c] \in Slots
        /\ stealer[c] # self[c]
        /\ snapshot[c] \div 2 > MAX_TASKS_TO_STEAL
        /\ stolen[c] = MAX_TASKS_TO_STEAL

\* C5: no queue (the injector or a scheduler's run queue) has two Stealers at
\* once; a cpu that is not stealing holds none; and the queues account for
\* every task: the tasks spawned are those queued, those being polled and
\* those completed, each counted once.
C5_OneStealer ==
    /\ \A src \in Sources : Cardinality(Holders(src)) <= 1
    /\ \A c \in Cpus : pc[c] # "steal" <=> stealer[c] = None
    /\ \A t \in Tasks :
        t <= spawned =>
            Cardinality(Positions(t)) + Cardinality(Pollers(t)) + polled[t] = 1

\* one cpu holds the injector's Stealer while the other cpu, which found the
\* injector busy, went on to the victims although tasks wait in the injector
C5_Witness ==
    \E c, d \in Cpus :
        /\ stealer[c] = INJ
        /\ snapshot[c] >= 2
        /\ stolen[c] = 0
        /\ pc[d] = "victim"
        /\ attempts_remaining[d] = MAX_STEAL_ATTEMPTS

----------------------------------------------------------------------------
(* C6, C7 *)

\* the cpu leaves make_scheduler in this step
MakeSchedulerEnds(c) == pc[c] = "make" /\ pc'[c] # "make"

\* C6: fetch_add numbers the claims 0, 1, 2, ...  A claim numbered below
\* MAX_CORES returns: it initializes the slot of its number, which was not
\* initialized before, and touches no other slot.  A claim numbered MAX_CORES
\* or more panics: it returns nothing and changes no slot.  So no slot is ever
\* initialized twice and no index wraps around.
C6_ClaimLimit ==
    [][\A c \in Cpus :
          MakeSchedulerEnds(c) =>
              IF next[c] < MAX_CORES
                THEN /\ pc'[c] = "out"
                     /\ ~schedulers[next[c]]
                     /\ schedulers' = [schedulers EXCEPT ![next[c]] = TRUE]
                ELSE /\ pc'[c] = "halt"
                     /\ schedulers' = schedulers]_vars

\* every slot is claimed and two further claims have failed: both cpus are
\* halted and the slots are as the successful claims left them
C6_Witness ==
    /\ cores = MAX_CORES + 2
    /\ \A i \in Slots : schedulers[i]
    /\ \A c \in Cpus : pc[c] = "halt"

\* the claims in flight: counted, not yet initialized
InFlight == {c \in Cpus : pc[c] = "make" /\ next[c] < MAX_CORES}

\* C7: at any moment the slots that are initialized and the slots of the
\* claims in flight are, without repetition, the range 0 .. n-1 for n the
\* number of claims made (at most MAX_CORES); an initialized slot stays
\* initialized, whatever its executor does, and the counter never goes back.
C7_DistinctSlots ==
    /\ [](LET claimed == {i \in Slots : schedulers[i]}
               flying == {next[c] : c \in InFlight}
           IN  /\ claimed \cup flying = 0 .. (Min(cores, MAX_CORES) - 1)
               /\ claimed \cap flying = {}
               /\ Cardinality(flying) = Cardinality(InFlight))
    /\ [][(\A i \in Slots : schedulers[i] => schedulers'[i]) /\ cores' >= cores]_vars

\* two cpus are inside make_scheduler at once, each with its own index, and
\* an executor made earlier has run and is stopped again
C7_Witness ==
    /\ \A c \in Cpus : pc[c] = "make"
    /\ InFlight # {}
    /\ \E i \in Slots, t \in Tasks : schedulers[i] /\ ~running[i] /\ polled[t] > 0

----------------------------------------------------------------------------
(* C8, C9, C10 *)

\* the step enqueues task t at the tail of the queue of dst and leaves every
\* other queue as it is
EnqueuesOnly(dst, t) ==
    /\ sched_inject' = IF dst = INJ THEN Append(sched_inject, t) ELSE sched_inject
    /\ run_queue' = [i \in Slots |->
                       IF i = dst THEN Append(run_queue[i], t) ELSE run_queue[i]]

\* C8: a spawn() that returns on cpu c enqueues the new task on the scheduler
\* installed in c's CORE_SCHED when there is one, and on the injector
\* otherwise, and on no other queue; a scheduler is installed exactly while
\* the cpu is inside a run loop, and it is the one of the executor it runs.
C8_SpawnTarget ==
    [][\A c \in Cpus :
          Spawn(c) /\ spawned' = spawned + 1 =>
              /\ EnqueuesOnly(IF CORE_SCHED[c] # None THEN CORE_SCHED[c] ELSE INJ,
                              spawned + 1)
              /\ CORE_SCHED[c] # None <=> pc[c] = "poll"
              /\ CORE_SCHED[c] # None => CORE_SCHED[c] = self[c]]_vars

\* a task polled on cpu c has spawned two tasks on c's own scheduler while the
\* injector holds tasks spawned from outside
C8_Witness ==
    \E c \in Cpus :
        /\ pc[c] = "poll"
        /\ Len(run_queue[self[c]]) = 2
        /\ \A k \in 1 .. 2 : run_queue[self[c]][k] > task[c]
        /\ Len(sched_inject) = 2

\* C9: run() on an executor whose running flag is set only logs the error and
\* returns: the flag stays set, the caller's CORE_SCHED and position are
\* unchanged, no queue changes and no task is polled; and the error is logged
\* by no other step.
C9_RunTwice ==
    [][/\ \A c \in Cpus, e \in Slots :
             Run(c, e) /\ running[e] =>
                 /\ run_errors' # run_errors
                 /\ UNCHANGED <<rtVars, cpuVars, seizeVars, taskVars>>
       /\ run_errors' # run_errors =>
             \E c \in Cpus, e \in Slots : pc[c] = "out" /\ schedulers[e] /\ running[e]]_vars

\* the error has been logged while another cpu is inside the loop of the
\* executor
C9_Witness ==
    /\ run_errors
    /\ \E c \in Cpus : InLoop(c) /\ running[self[c]]

\* C10: a cpu inside the loop of run() has the scheduler of the executor it
\* runs in CORE_SCHED; a cpu that is outside (it never ran, or run() has
\* returned) has none, so its spawn() goes to the injector.
C10_CoreSched ==
    /\ [](\A c \in Cpus :
            /\ InLoop(c) => self[c] \in Slots /\ CORE_SCHED[c] = self[c]
            /\ pc[c] \in {"out", "make"} => CORE_SCHED[c] = None /\ self[c] = None)
    /\ [][\A c \in Cpus :
            Spawn(c) /\ pc[c] = "out" /\ spawned' = spawned + 1 =>
                sched_inject' = Append(sched_inject, spawned + 1)]_vars

\* run() has returned on a cpu that polled a task, and the task the cpu
\* spawned afterwards is in the injector
C10_Witness ==
    /\ \A c \in Cpus : pc[c] = "out"
    /\ Cardinality({e \in Slots : schedulers[e]}) = 1
    /\ polled[1] = 1
    /\ sched_inject = <<2>>

----------------------------------------------------------------------------
(* C11 *)

\* the cpu is inside seize()
InSeize(c) == pc[c] \in {"seize", "victim", "retry", "steal"}

\* C11: a cpu leaves the run loop only from the check of the flag, with the
\* flag clear; it comes to that check only from a seize() that returned 0 (the
\* last injector try failed, or a Stealer was dropped with nothing moved); it
\* enters seize() only from a tick that ended with nothing queued locally;
\* and a stop() changes nothing but the flag: no position, no task being
\* polled, no queue.
C11_ExitOnlyIdle ==
    [][/\ \A c \in Cpus :
            /\ InLoop(c) /\ pc'[c] = "out" => pc[c] = "check" /\ ~running[self[c]]
            /\ pc[c] # "check" /\ pc'[c] = "check" =>
                  \/ pc[c] = "retry" /\ ~TryStealOk(INJ)
                  \/ pc[c] = "steal" /\ stolen[c] = 0
            /\ ~InSeize(c) /\ InSeize(c)' =>
                  pc[c] = "tick" /\ Len(run_queue[self[c]]) = 0
       /\ (\E c \in Cpus, e \in Slots : Stop(c, e)) =>
            UNCHANGED <<pc, task, run_queue, sched_inject, polled>>]_vars

\* stop() has been called on an executor whose cpu is polling a task with
\* another task queued behind it: the loop goes on
C11_Witness ==
    \E c \in Cpus :
        /\ pc[c] = "poll"
        /\ ~running[self[c]]
        /\ Len(run_queue[self[c]]) > 0

----------------------------------------------------------------------------
(* C12, C13: a single executor and no task *)

\* CoreExecutor::new() called while no executor exists
SoleExecutor(c) ==
    /\ cores = 0
    /\ MakeSchedulerClaim(c)

\* run(&mut self) called by the owner of the executor: nobody is inside its
\* loop
RunOwned(c, e) ==
    /\ \A d \in Cpus : ~InLoop(d)
    /\ Run(c, e)

\* one step of a cpu inside run() when no task is ever spawned
IdleStep(c) ==
    \/ TickEnd(c)
    \/ SeizeInjector(c)
    \/ SeizeVictim(c)
    \/ SeizeRetry(c)
    \/ RunCheck(c)

\* one executor, no spawn(); stop() from any cpu that is outside the loop
SoloNext ==
    \E c \in Cpus :
        \/ CoreLocalsInit(c)
        \/ InitTimer(c)
        \/ SoleExecutor(c)
        \/ MakeSchedulerInit(c)
        \/ \E e \in Slots : Stop(c, e)
        \/ \E e \in Slots : RunOwned(c, e)
        \/ IdleStep(c)

SoloSpec == Init /\ [][SoloNext]_vars /\ \A c \in Cpus : WF_vars(IdleStep(c))

\* the cpu runs an executor whose flag stop() has cleared
StopPending(c) == InLoop(c) /\ \E e \in Slots : self[c] = e /\ ~running[e]

\* C12: with a single executor, no task anywhere and the global timer
\* installed, a cpu inside the run loop whose executor has been stopped
\* eventually returns from run(); until then it never goes back to the tick
\* from the seize or from the check (it finishes the cycle it is in), it does
\* not panic, and the check that finds the flag clear returns.
C12_StopWhenIdle ==
    /\ \A c \in Cpus : (StopPending(c) /\ timer) ~> (pc[c] = "out")
    /\ [][\A c \in Cpus :
            /\ StopPending(c) /\ timer =>
                  /\ pc'[c] # "halt"
                  /\ pc'[c] = "tick" => pc[c] = "tick"
            /\ StopPending(c) /\ pc[c] = "check" /\ pc'[c] # "check" => pc'[c] = "out"]_vars

\* another cpu has stopped the executor while its cpu was in seize(): the
\* cpu is at the check of the flag, about to return
C12_Witness ==
    /\ timer
    /\ \E c \in Cpus : StopPending(c) /\ pc[c] = "check"
    /\ \E d \in Cpus : pc[d] = "out" /\ locals[d]

\* the cpu is inside an idle stall (boot::stall, as in the loop of main.rs,
\* line 131); no step of CoreExecutor::run leads there
Stalled(c) == pc[c] = "stall"

\* C13: a cpu that leaves the check of the flag without returning (nothing
\* local, seize() returned 0, not stopped) stalls before it ticks again.
C13_StallWhenIdle ==
    [][\A c \in Cpus :
          pc[c] = "check" /\ pc'[c] \notin {"check", "out"} => Stalled(c)']_vars

----------------------------------------------------------------------------
(* C14: stop() and what it returns *)

StopWasRunning_Always(e) == TRUE
\* stop, lines 60-63: compare_exchange(true, false).is_ok()
StopWasRunning(e) == running[e]

\* CoreExecutor::stop with its return value kept: one compare_exchange
StopCall(c, e) ==
    /\ pc[c] \in {"out", "poll"}
    /\ Executor(e)
    /\ was_running' = StopWasRunning(e)
    /\ running' = [running EXCEPT ![e] = FALSE]
    /\ UNCHANGED <<cores, schedulers, run_queue, sched_inject, timer,
                   cpuVars, seizeVars, taskVars, run_errors, localVars, timeVars, calVars,
                   tickVars, pickVars, logVars, clockVars>>

\* every spawn() before any executor exists, every stop() with its result
StopNext ==
    \E c \in Cpus :
        \/ CoreLocalsInit(c)
        \/ InitTimer(c)
        \/ MakeSchedulerClaim(c)
        \/ MakeSchedulerInit(c)
        \/ SpawnEarly(c)
        \/ \E e \in Slots : StopCall(c, e)
        \/ \E e \in Slots : Run(c, e)
        \/ LoopStep(c)

StopSpec == Init /\ [][StopNext]_vars

\* C14: a stop() on executor e returns true exactly when the flag of e was
\* set, leaves the flag clear, and changes nothing else (on an executor that
\* is not running it changes nothing at all); the flag is cleared by no other
\* step than a stop() that returns true, and set by no other step than a
\* run(): so of the stop() calls made between two run() calls at most one
\* returns true.
C14_StopAtomic ==
    [][/\ \A c \in Cpus, e \in Slots :
            StopCall(c, e) =>
                /\ was_running' = running[e]
                /\ running' = [running EXCEPT ![e] = FALSE]
                /\ UNCHANGED <<cores, schedulers, run_queue, sched_inject, timer,
                               cpuVars, seizeVars, taskVars, run_errors>>
       /\ \A e \in Slots :
            /\ running[e] /\ ~running'[e] =>
                  was_running' /\ \E c \in Cpus : StopCall(c, e)
            /\ ~running[e] /\ running'[e] => \E c \in Cpus : Run(c, e)]_vars

\* a stop() has returned true for an executor whose cpu is still polling a
\* task
C14_Witness ==
    /\ was_running
    /\ \E c \in Cpus : pc[c] = "poll" /\ ~running[self[c]]

----------------------------------------------------------------------------
(* platform/local.rs in full: CoreLocals and CoreLocal *)

\* a GS base the firmware left behind: no CoreLocals block lives there
Foreign == -3
\* a Lazy<usize> whose initializer panicked: it never becomes ready
Initializing == -4
\* CoreLocals::LOCALS_KEY
LOCALS_KEY == "0x424947424F4F4253"

\* what the local.rs actions leave alone
execVars == <<rtVars, CORE_SCHED, self, next, task, seizeVars, taskVars,
              run_errors, stopVars, timeVars, calVars, tickVars, pickVars, logVars, clockVars>>

\* CoreLocals::new() with _self set (line 78): a block of null pointers
NewBlock(ptr) == [self_ |-> ptr, key_ |-> LOCALS_KEY, locals |-> [i \in LocalSlots |-> 0]]

\* the word at %gs:0x08 on cpu c
KeyAt(c) == IF GS_BASE[c] \in DOMAIN blocks THEN blocks[GS_BASE[c]].key_ ELSE "firmware"
\* the word at %gs:0x00 on cpu c
SelfAt(c) == IF GS_BASE[c] \in DOMAIN blocks THEN blocks[GS_BASE[c]].self_ ELSE GS_BASE[c]

is_initialized_Never(c) == FALSE
is_initialized_NoKey(c) == GS_BASE[c] # 0
\* CoreLocals::is_initialized
is_initialized(c) == IF GS_BASE[c] = 0 THEN FALSE ELSE LOCALS_KEY = KeyAt(c)

try_current_First(c) == IF ~is_initialized(c) THEN None ELSE 1
try_current_Shared(c) == IF Len(blocks) > 0 THEN 1 ELSE None
\* CoreLocals::try_current: None, or the block of the cpu
try_current(c) == IF ~is_initialized(c) THEN None ELSE SelfAt(c)

\* CoreLocals::init on cpu c
LocalsInit(c) ==
    /\ pc[c] = "out"
    /\ IF is_initialized(c)
         THEN /\ warned' = [warned EXCEPT ![c] = TRUE]
              /\ UNCHANGED <<GS_BASE, blocks, locals>>
         ELSE LET ptr == Len(blocks) + 1 IN
              /\ blocks' = Append(blocks, NewBlock(ptr))
              /\ GS_BASE' = [GS_BASE EXCEPT ![c] = ptr]
              /\ locals' = [locals EXCEPT ![c] = TRUE]
              /\ UNCHANGED warned
    /\ UNCHANGED <<NEXT_SLOT, slot, frames, made, pc, execVars>>

\* the innermost with() call cpu c is inside
Top(c) == frames[c][Len(frames[c])]
SetTop(c, f) == [frames EXCEPT ![c][Len(frames[c])] = f]

\* CoreLocal::with, line 175: CoreLocals::current(), then CoreLocals::with
\* is entered
WithCall(c, k) ==
    /\ pc[c] = "out"
    /\ IF try_current(c) = None
         THEN Halt(c) /\ UNCHANGED frames
         ELSE /\ frames' = [frames EXCEPT ![c] =
                    Append(@, [key |-> k, at |-> "slot", block |-> try_current(c), ptr |-> 0])]
              /\ UNCHANGED pc
    /\ UNCHANGED <<GS_BASE, blocks, NEXT_SLOT, slot, made, warned, locals, execVars>>

\* a with() call from outside any with() call
WithEnter(c, k) == frames[c] = <<>> /\ WithCall(c, k)

\* a with() call made while a key's init function runs (line 125)
WithReenter(c, k) ==
    /\ frames[c] # <<>>
    /\ Len(frames[c]) < MaxDepth
    /\ Top(c).at = "init"
    /\ WithCall(c, k)

NextSlotOk_Always(n) == TRUE
\* next_slot, lines 155-159: the assert
NextSlotOk(n) == n < MAX_LOCALS

\* the frame f once slot.load() (line 120) has read ptr
Loaded(f, ptr) == [f EXCEPT !.ptr = ptr, !.at = IF ptr = 0 THEN "init" ELSE "func"]

\* with, lines 108-123, with slot_idx the index of the frame's key:
\* locals.get(slot_idx) and slot.load(). The slot table is touched by its
\* own cpu only, so the step is taken together with the one before it.
WithLoad(c, slot_idx) ==
    IF slot_idx \notin LocalSlots
      THEN Halt(c) /\ UNCHANGED frames
      ELSE /\ frames' = SetTop(c, Loaded(Top(c), blocks[Top(c).block].locals[slot_idx]))
           /\ UNCHANGED pc

\* with, line 108: *key.slot, the Lazy running next_slot on the first touch,
\* and on to the load of the slot pointer
WithSlot(c) ==
    /\ pc[c] = "out"
    /\ frames[c] # <<>>
    /\ Top(c).at = "slot"
    /\ slot[Top(c).key] # Initializing
    /\ IF slot[Top(c).key] = None
         THEN /\ NEXT_SLOT' = NEXT_SLOT + 1
              /\ IF NextSlotOk(NEXT_SLOT)
                   THEN /\ slot' = [slot EXCEPT ![Top(c).key] = NEXT_SLOT]
                        /\ WithLoad(c, NEXT_SLOT)
                   ELSE /\ slot' = [slot EXCEPT ![Top(c).key] = Initializing]
                        /\ Halt(c)
                        /\ UNCHANGED frames
         ELSE /\ WithLoad(c, slot[Top(c).key])
              /\ UNCHANGED <<NEXT_SLOT, slot>>
    /\ UNCHANGED <<GS_BASE, blocks, made, warned, locals, execVars>>

\* with, lines 125-133: (key.init)() has returned, the value is boxed and
\* compare_exchange(ptr, dptr).expect(..) publishes it or panics
WithPublish(c) ==
    /\ pc[c] = "out"
    /\ frames[c] # <<>>
    /\ Top(c).at = "init"
    /\ LET f == Top(c)
           dptr == made[c][f.key] + 1
       IN /\ made' = [made EXCEPT ![c][f.key] = dptr]
          /\ IF blocks[f.block].locals[slot[f.key]] = f.ptr
               THEN /\ blocks' = [blocks EXCEPT ![f.block].locals[slot[f.key]] = dptr]
                    /\ frames' = SetTop(c, [f EXCEPT !.ptr = dptr, !.at = "func"])
                    /\ UNCHANGED pc
               ELSE /\ Halt(c)
                    /\ UNCHANGED <<blocks, frames>>
    /\ UNCHANGED <<GS_BASE, NEXT_SLOT, slot, warned, locals, execVars>>

\* with, lines 137-138: func(data) runs and with() returns
WithFunc(c) ==
    /\ pc[c] = "out"
    /\ frames[c] # <<>>
    /\ Top(c).at = "func"
    /\ frames' = [frames EXCEPT ![c] = SubSeq(@, 1, Len(@) - 1)]
    /\ UNCHANGED <<GS_BASE, blocks, NEXT_SLOT, slot, made, warned, locals, pc, execVars>>

LocalNext ==
    \E c \in Cpus :
        \/ LocalsInit(c)
        \/ \E k \in Keys : WithEnter(c, k)
        \/ WithSlot(c)
        \/ WithPublish(c)
        \/ WithFunc(c)

\* every cpu starts with GS base zero or with what the firmware left
LocalBoot == \E gs \in [Cpus -> {0, Foreign}] : Boot(gs)

\* with() calls that do not nest
LocalSpec == LocalBoot /\ [][LocalNext]_vars

ReentrantNext == LocalNext \/ \E c \in Cpus, k \in Keys : WithReenter(c, k)

\* with() calls that nest as well
ReentrantSpec == LocalBoot /\ [][ReentrantNext]_vars

\* cpu c has the block CoreLocals::init gave it: GS base set, key in place
HasBlock(c) == GS_BASE[c] # 0 /\ KeyAt(c) = LOCALS_KEY

\* C15: CoreLocals::init() on a cpu that already has its block does not halt
\* the cpu and logs the warning; the GS base of the cpu, the blocks allocated
\* so far with their keys and slot pointers, the slot indices and the with()
\* calls in progress are what they were, and no block is added. A block, once
\* installed on a cpu, stays that cpu's block for good.
C15_InitTwice ==
    [][\A c \in Cpus :
          /\ HasBlock(c) /\ LocalsInit(c) =>
                /\ pc'[c] = "out"
                /\ warned'[c]
                /\ UNCHANGED <<GS_BASE, blocks, NEXT_SLOT, slot, frames, made>>
          /\ HasBlock(c) =>
                /\ GS_BASE'[c] = GS_BASE[c]
                /\ blocks'[GS_BASE[c]].key_ = LOCALS_KEY
                /\ blocks'[GS_BASE[c]].self_ = GS_BASE[c]
          /\ Len(blocks') # Len(blocks) =>
                \E d \in Cpus : ~HasBlock(d) /\ LocalsInit(d)]_vars

\* init() was called again on a cpu that had a populated slot
C15_Witness ==
    \E c \in Cpus :
        /\ warned[c]
        /\ HasBlock(c)
        /\ \E i \in LocalSlots : blocks[GS_BASE[c]].locals[i] # 0
        /\ Len(blocks) = 1

\* C16: on a cpu whose GS base is zero or whose key word does not match,
\* try_current() is None and a with() call halts the cpu with no slot index
\* handed out, no slot pointer read or written and no init function run.
\* init() leaves the cpu with a block; on a cpu with a block try_current() is
\* that block, which is no other cpu's, and a with() call goes on with it.
C16_CurrentNeedsInit ==
    [][\A c \in Cpus :
          /\ ~HasBlock(c) => try_current(c) = None
          /\ \A k \in Keys :
                ~HasBlock(c) /\ WithEnter(c, k) =>
                    /\ pc'[c] = "halt"
                    /\ UNCHANGED <<GS_BASE, blocks, NEXT_SLOT, slot, frames, made>>
          /\ LocalsInit(c) => HasBlock(c)'
          /\ HasBlock(c) =>
                /\ try_current(c) = GS_BASE[c]
                /\ GS_BASE[c] \in DOMAIN blocks
                /\ \A d \in Cpus \ {c} : GS_BASE[d] # GS_BASE[c]
          /\ \A k \in Keys :
                HasBlock(c) /\ WithEnter(c, k) =>
                    /\ pc'[c] = "out"
                    /\ Top(c)'.block = GS_BASE[c]]_vars

\* one cpu halted in with() over the firmware's GS base, the other one is
\* inside with() on its own block
C16_Witness ==
    \E c, d \in Cpus :
        /\ GS_BASE[c] = Foreign
        /\ pc[c] = "halt"
        /\ frames[c] = <<>>
        /\ HasBlock(d)
        /\ frames[d] # <<>>
        /\ Top(d).block = GS_BASE[d]

\* the slot pointer of key k in the block of cpu c
SlotPtr(c, k) == blocks[GS_BASE[c]].locals[slot[k]]

\* C17: on a cpu with a block, the init function of a key returns at most once
\* per cpu and key, a slot pointer that is not null never changes, and the
\* instance a with() call hands to its function is the one in the slot.
C17_OneInstance ==
    /\ [](\A c \in Cpus, k \in Keys : made[c][k] <= 1)
    /\ [](\A c \in Cpus :
            frames[c] # <<>> /\ Top(c).at = "func" /\ pc[c] = "out" =>
                Top(c).ptr # 0 /\ Top(c).ptr = SlotPtr(c, Top(c).key))
    /\ [][\A b \in DOMAIN blocks, i \in LocalSlots :
            blocks[b].locals[i] # 0 => blocks'[b].locals[i] = blocks[b].locals[i]]_vars

\* the with() call of cpu c read a null slot pointer, and the slot has been
\* populated since
Lost(c) ==
    /\ frames[c] # <<>>
    /\ Top(c).at = "init"
    /\ Top(c).ptr = 0
    /\ SlotPtr(c, Top(c).key) # 0

\* C18: a with() call whose slot was populated between its load and its
\* compare-and-swap does not halt the cpu, leaves the slot pointer alone and
\* goes on to its function with the instance that is in the slot.
C18_LoserReadsBack ==
    [][\A c \in Cpus :
          Lost(c) /\ WithPublish(c) =>
              /\ pc'[c] = "out"
              /\ UNCHANGED blocks
              /\ Top(c)'.at = "func"
              /\ Top(c)'.ptr = SlotPtr(c, Top(c).key)]_vars

\* the keys that have a slot index
Indexed == {k \in Keys : slot[k] \in LocalSlots}

\* C19: the keys that have an index hold the indices 0, 1, ... in the order
\* of their first touch, each index once, none of them MAX_LOCALS or more,
\* and an index once given never changes. The first touch of a key when
\* MAX_LOCALS keys have an index halts the cpu in next_slot: the key gets no
\* index, the with() call does not go on, no slot pointer changes. A with()
\* call past its slot lookup has a key whose index is inside the table.
C19_SlotIndices ==
    /\ [](/\ \A k \in Keys : slot[k] \in LocalSlots \cup {None, Initializing}
          /\ \A k, l \in Indexed : k # l => slot[k] # slot[l]
          /\ {slot[k] : k \in Indexed} = 0 .. (Cardinality(Indexed) - 1)
          /\ \A c \in Cpus : \A i \in 1 .. Len(frames[c]) :
                frames[c][i].at # "slot" => frames[c][i].key \in Indexed)
    /\ [][\A k \in Keys :
            /\ slot[k] \in LocalSlots => slot'[k] = slot[k]
            /\ slot[k] = None /\ slot'[k] # None =>
                  IF Cardinality(Indexed) < MAX_LOCALS
                    THEN slot'[k] = Cardinality(Indexed)
                    ELSE /\ slot'[k] = Initializing
                         /\ UNCHANGED <<blocks, made>>
                         /\ \E c \in Cpus :
                               /\ frames[c] # <<>>
                               /\ Top(c).key = k
                               /\ pc[c] = "out" /\ pc'[c] = "halt"
                               /\ frames'[c] = frames[c]]_vars

\* every slot index is taken and a cpu halted on the first touch of one
\* more key
C19_Witness ==
    /\ Cardinality(Indexed) = MAX_LOCALS
    /\ \E c \in Cpus :
          /\ pc[c] = "halt"
          /\ frames[c] # <<>>
          /\ Top(c).at = "slot"
          /\ slot[Top(c).key] = Initializing

----------------------------------------------------------------------------
(* runtime/time.rs: init_timer and timer *)

GetOrInit_Replace(cell, new) == new
\* OnceLock::get_or_init: the value in the cell, which is new if it was empty
GetOrInit(cell, new) == IF cell = None THEN new ELSE cell

\* Timer::new(new_clock()) on cpu c: the timers are told apart by their maker
NewTimer(c) == c + 1

\* timer(), line 91: MAITAKE_TIMER.get(), unwrapped by the caller
TimerGet == MAITAKE_TIMER

\* init_timer, lines 84-85: MAITAKE_TIMER.get_or_init(..)
InitTimerGet(c) ==
    /\ pc[c] = "out"
    /\ MAITAKE_TIMER' = GetOrInit(MAITAKE_TIMER, NewTimer(c))
    /\ timer_ref' = [timer_ref EXCEPT ![c] = MAITAKE_TIMER']
    /\ timer' = TRUE
    /\ pc' = [pc EXCEPT ![c] = "timer"]
    /\ UNCHANGED <<cores, schedulers, run_queue, sched_inject, running,
                   CORE_SCHED, locals, self, next, task, seizeVars, taskVars,
                   run_errors, stopVars, localVars, calVars, tickVars, pickVars, logVars, clockVars,
                   GLOBAL_TIMER>>

\* init_timer, lines 86-87: set_global_timer(timer).expect(..)
InitTimerSet(c) ==
    /\ pc[c] = "timer"
    /\ IF GLOBAL_TIMER = None
         THEN /\ GLOBAL_TIMER' = timer_ref[c]
              /\ pc' = [pc EXCEPT ![c] = "out"]
         ELSE /\ Halt(c)
              /\ UNCHANGED GLOBAL_TIMER
    /\ UNCHANGED <<rtVars, CORE_SCHED, locals, self, next, task, seizeVars, taskVars,
                   run_errors, stopVars, localVars, calVars, tickVars, pickVars, logVars, clockVars,
                   MAITAKE_TIMER, timer_ref>>

\* init_timer() from any cpu at any time, around one executor and its loop
TimeNext ==
    \E c \in Cpus :
        \/ InitTimerGet(c)
        \/ InitTimerSet(c)
        \/ CoreLocalsInit(c)
        \/ SoleExecutor(c)
        \/ MakeSchedulerInit(c)
        \/ \E e \in Slots : Stop(c, e)
        \/ \E e \in Slots : RunOwned(c, e)
        \/ IdleStep(c)

TimeSpec == Init /\ [][TimeNext]_vars

\* C20: an init_timer() that reaches set_global_timer while no global timer
\* is installed returns, having installed the timer of MAITAKE_TIMER; one
\* that reaches it later halts its cpu. The timer in MAITAKE_TIMER, which is
\* what timer() returns on every cpu, and the installed global timer never
\* change once set, every init_timer() call holds that same timer, and the
\* global timer is that timer.
C20_TimerOnce ==
    [][/\ TimerGet # None => TimerGet' = TimerGet
       /\ GLOBAL_TIMER # None => GLOBAL_TIMER' = GLOBAL_TIMER /\ GLOBAL_TIMER = TimerGet
       /\ \A c \in Cpus :
            /\ pc[c] = "timer" => timer_ref[c] = TimerGet /\ TimerGet # None
            /\ InitTimerSet(c) =>
                  IF GLOBAL_TIMER = None
                    THEN pc'[c] = "out" /\ GLOBAL_TIMER' = TimerGet
                    ELSE pc'[c] = "halt" /\ GLOBAL_TIMER' = GLOBAL_TIMER]_vars

\* the timer is installed, a later init_timer() has halted its cpu, and an
\* executor is in its loop on the other cpu
C20_Witness ==
    /\ GLOBAL_TIMER # None
    /\ GLOBAL_TIMER = TimerGet
    /\ \E c, d \in Cpus :
          /\ pc[c] = "halt"
          /\ timer_ref[c] = GLOBAL_TIMER
          /\ NewTimer(c) # GLOBAL_TIMER
          /\ pc[d] = "tick"

----------------------------------------------------------------------------
(* runtime/time.rs: _duration_from_rdtsc and the clock of new_clock *)

\* elapsed >> sft, line 39
ShiftRight(e, s) == e \div (2 ^ s)

DurationDiv_Ceil(ns, x) == (ns + x - 1) \div x
\* ELAPSE_DURATION / elapsed, line 40: Duration / u32 in whole nanoseconds
DurationDiv(ns, x) == ns \div x

\* RDTSC_SHIFT.compare_exchange(u32::MAX, sft), lines 44-49
ShiftStored(old, s) == IF old = U32_MAX THEN s ELSE old

\* new_clock, line 74: the fallback calls _duration_from_rdtsc
CalStart ==
    /\ cal_pc = "idle"
    /\ cal_pc' = "measure"
    /\ attempt' = 0
    /\ UNCHANGED <<elapsed, sft, duration, RDTSC_SHIFT>>
    /\ UNCHANGED <<rtVars, cpuVars, seizeVars, taskVars, run_errors,
                   stopVars, localVars, timeVars, tickVars, pickVars, logVars, clockVars>>

\* lines 23-37: the head of the for loop and one measurement, the counter
\* having advanced by e over the stall; line 57 when the attempts are used up
CalMeasure ==
    /\ cal_pc = "measure"
    /\ IF attempt < MAX_ATTEMPTS
         THEN /\ \E e \in U64 : elapsed' = e
              /\ sft' = 0
              /\ cal_pc' = "shift"
         ELSE /\ cal_pc' = "unreachable"
              /\ UNCHANGED <<elapsed, sft>>
    /\ UNCHANGED <<attempt, duration, RDTSC_SHIFT>>
    /\ UNCHANGED <<rtVars, cpuVars, seizeVars, taskVars, run_errors,
                   stopVars, localVars, timeVars, tickVars, pickVars, logVars, clockVars>>

\* lines 38-55: one round of the while loop, or its exit to the next attempt
CalShift ==
    /\ cal_pc = "shift"
    /\ IF sft < TSC_BITS
         THEN LET x == ShiftRight(elapsed, sft) IN
              IF x > U32_MAX
                THEN \* try_into().expect("RDTSC cycle overflow")
                     /\ cal_pc' = "overflow"
                     /\ UNCHANGED <<attempt, sft, duration, RDTSC_SHIFT>>
                ELSE IF x = 0
                THEN \* Duration / 0 panics
                     /\ cal_pc' = "divzero"
                     /\ UNCHANGED <<attempt, sft, duration, RDTSC_SHIFT>>
                ELSE IF DurationDiv(ELAPSE_NANOS, x) > 0
                THEN /\ RDTSC_SHIFT' = ShiftStored(RDTSC_SHIFT, sft)
                     /\ duration' = DurationDiv(ELAPSE_NANOS, x)
                     /\ cal_pc' = "done"
                     /\ UNCHANGED <<attempt, sft>>
                ELSE /\ sft' = sft + 1
                     /\ UNCHANGED <<cal_pc, attempt, duration, RDTSC_SHIFT>>
         ELSE /\ attempt' = attempt + 1
              /\ cal_pc' = "measure"
              /\ UNCHANGED <<sft, duration, RDTSC_SHIFT>>
    /\ UNCHANGED elapsed
    /\ UNCHANGED <<rtVars, cpuVars, seizeVars, taskVars, run_errors,
                   stopVars, localVars, timeVars, tickVars, pickVars, logVars, clockVars>>

CalNext == CalStart \/ CalMeasure \/ CalShift

CalSpec == Init /\ [][CalNext]_vars

\* the smallest shift at which ELAPSE_DURATION / (e >> s) is not zero
SmallestShift(e) ==
    CHOOSE s \in 0 .. (TSC_BITS - 1) :
        /\ ShiftRight(e, s) > 0
        /\ ELAPSE_NANOS \div ShiftRight(e, s) > 0
        /\ \A r \in 0 .. (s - 1) :
              ShiftRight(e, r) > 0 /\ ELAPSE_NANOS \div ShiftRight(e, r) = 0

\* C21: calibration makes at most MAX_ATTEMPTS measurements and goes through
\* the shifts in increasing order below the width of the counter; it ends
\* either with a duration of at least 1 ns taken at the smallest shift that
\* gives one, or in the fatal condition after the last attempt, and in no
\* other way.
C21_CalibrationEnds ==
    /\ [](/\ attempt <= MAX_ATTEMPTS
          /\ sft <= TSC_BITS
          /\ cal_pc \in {"idle", "measure", "shift", "done", "unreachable"}
          /\ cal_pc = "unreachable" => attempt = MAX_ATTEMPTS
          /\ cal_pc = "done" => duration >= 1 /\ sft = SmallestShift(elapsed))
    /\ [][sft' # sft => sft' = sft + 1 \/ sft' = 0]_vars

\* C22: the duration calibration returns for a counter that advanced by
\* elapsed over ELAPSE_DURATION is at least 1 ns and, against the true
\* duration ELAPSE_NANOS * 2^sft / elapsed of one shifted tick, is more than
\* the true duration less 1 ns (so more than half of it) and no more than
\* the true duration stretched by the bits the shift dropped; the clock
\* shifts by the shift the duration was derived at.
C22_DurationInBand ==
    cal_pc = "done" =>
        /\ duration >= 1
        /\ ELAPSE_NANOS * 2 ^ sft < (duration + 1) * elapsed
        /\ ELAPSE_NANOS * 2 ^ sft < 2 * duration * elapsed
        /\ duration * (elapsed - 2 ^ sft + 1) <= ELAPSE_NANOS * 2 ^ sft
        /\ RDTSC_SHIFT = sft

\* a counter faster than one tick per nanosecond was calibrated at a shift
\* above zero
C22_Witness ==
    /\ cal_pc = "done"
    /\ elapsed > ELAPSE_NANOS
    /\ sft > 1
    /\ ShiftRight(elapsed, sft) * 2 ^ sft # elapsed

----------------------------------------------------------------------------
(* CoreExecutor::tick step by step *)

HasRemaining_Never(q) == FALSE
\* Tick::has_remaining of a tick that stopped with q still queued
HasRemaining(q) == Len(q) > 0

\* tick, line 117: self.sched.tick() returns, on an empty or a busy queue
SchedTickEnd(c) ==
    /\ pc[c] = "tick"
    /\ Len(run_queue[self[c]]) = 0 \/ Busy(self[c])
    /\ has_remaining' = [has_remaining EXCEPT ![c] = HasRemaining(run_queue[self[c]])]
    /\ pc' = [pc EXCEPT ![c] = "turn"]
    /\ UNCHANGED <<rtVars, CORE_SCHED, locals, self, next, task, seizeVars, taskVars,
                   run_errors, stopVars, localVars, timeVars, calVars, pickVars, logVars, clockVars>>

\* tick, lines 118-124: time::timer().turn(), which panics in unwrap() while
\* no timer is installed; then tck.has_remaining returns true to run, which
\* ticks again (line 102), and otherwise seize starts
TimerTurn(c) ==
    /\ pc[c] = "turn"
    /\ IF ~timer
         THEN Halt(c)
         ELSE pc' = [pc EXCEPT ![c] = IF has_remaining[c] THEN "tick" ELSE "seize"]
    /\ UNCHANGED <<rtVars, CORE_SCHED, locals, self, next, task, seizeVars, taskVars,
                   run_errors, platVars>>

\* every call at any time, tick() taken step by step
TickNext ==
    \E c \in Cpus :
        \/ CoreLocalsInit(c)
        \/ InitTimer(c)
        \/ MakeSchedulerClaim(c)
        \/ MakeSchedulerInit(c)
        \/ Spawn(c)
        \/ \E e \in Slots : Stop(c, e)
        \/ \E e \in Slots : Run(c, e)
        \/ TickDequeue(c)
        \/ PollDone(c)
        \/ SchedTickEnd(c)
        \/ TimerTurn(c)
        \/ SeizeInjector(c)
        \/ SeizeVictim(c)
        \/ SeizeRetry(c)
        \/ StealOne(c)
        \/ StealEnd(c)
        \/ RunCheck(c)

TickSpec == Init /\ [][TickNext]_vars

\* C23: a cpu in tick() leaves the scheduler tick only for the timer turn,
\* with has_remaining telling whether tasks are still queued; it leaves the
\* timer turn in one step, and with the timer installed that step goes back
\* to the scheduler tick when has_remaining is set, touching no queue and no
\* stealer, and on to seize when it is not; seize is entered from nowhere
\* else. So each executor tick is one scheduler tick, then one timer turn,
\* then seize only if no work remained.
C23_TickThenTurn ==
    [][\A c \in Cpus :
          /\ pc[c] = "tick" /\ pc'[c] # "tick" => pc'[c] \in {"poll", "turn"}
          /\ pc[c] # "turn" /\ pc'[c] = "turn" =>
                /\ pc[c] = "tick"
                /\ has_remaining'[c] = (Len(run_queue[self[c]]) > 0)
          /\ pc[c] = "turn" =>
                /\ has_remaining'[c] = has_remaining[c]
                /\ pc'[c] # "turn" =>
                      /\ pc'[c] = IF ~timer THEN "halt"
                                  ELSE IF has_remaining[c] THEN "tick" ELSE "seize"
                      /\ UNCHANGED <<run_queue, sched_inject, seizeVars, task>>
          /\ ~InSeize(c) /\ InSeize(c)' =>
                pc[c] = "turn" /\ ~has_remaining[c] /\ pc'[c] = "seize"
          /\ pc[c] # "tick" /\ pc'[c] = "tick" =>
                \/ pc[c] = "out"
                \/ pc[c] = "poll"
                \/ pc[c] = "turn" /\ has_remaining[c]
                \/ pc[c] = "steal" /\ stolen[c] > 0
                \/ pc[c] = "check" /\ running[self[c]]]_vars

\* a cpu is back in the scheduler tick after a timer turn with work left in
\* a queue that a thief holds
C23_Witness ==
    \E c \in Cpus :
        /\ pc[c] = "tick"
        /\ timer
        /\ has_remaining[c]
        /\ Busy(self[c])
        /\ Len(run_queue[self[c]]) > 0

----------------------------------------------------------------------------
(* CoreExecutor::seize *)

\* C24: a seize call starts at the injector; it goes on to the victims, with
\* MAX_STEAL_ATTEMPTS attempts, only when the injector gave no stealer; each
\* victim round takes a stealer, or counts one failed attempt, or panics on
\* an index past the scheduler array (which takes more make_scheduler calls
\* than there are slots); it tries the injector a second time only with the
\* attempts used up or no other core active, and then takes the stealer or
\* returns 0. It never goes back to an earlier stage, so it tries the
\* injector at most twice and fails on victims at most MAX_STEAL_ATTEMPTS
\* times; and a cpu inside seize gets out of it.
C24_SeizeOrder ==
    /\ [](\A c \in Cpus : attempts_remaining[c] \in 0 .. MAX_STEAL_ATTEMPTS)
    /\ [][\A c \in Cpus :
            /\ ~InSeize(c) /\ InSeize(c)' => pc'[c] = "seize"
            /\ pc[c] = "seize" /\ pc'[c] # "seize" =>
                  IF TryStealOk(INJ)
                    THEN pc'[c] = "steal" /\ stealer'[c] = INJ
                    ELSE pc'[c] = "victim" /\ attempts_remaining'[c] = MAX_STEAL_ATTEMPTS
            /\ pc[c] = "victim" =>
                  /\ attempts_remaining'[c] <= attempts_remaining[c]
                  /\ pc'[c] = "victim" =>
                        attempts_remaining'[c] >= attempts_remaining[c] - 1
                  /\ pc'[c] = "retry" => attempts_remaining[c] = 0 \/ active_cores <= 1
                  /\ pc'[c] = "steal" => stealer'[c] \in Slots
                  /\ pc'[c] = "halt" => cores > MAX_CORES
                  /\ pc'[c] \in {"victim", "retry", "steal", "halt"}
            /\ pc[c] = "retry" /\ pc'[c] # "retry" =>
                  IF TryStealOk(INJ)
                    THEN pc'[c] = "steal" /\ stealer'[c] = INJ
                    ELSE pc'[c] = "check" /\ UNCHANGED <<run_queue, sched_inject>>
            /\ pc[c] = "steal" => pc'[c] \in {"steal", "tick", "check"}]_vars
    /\ \A c \in Cpus : InSeize(c) ~> ~InSeize(c)

\* a cpu has failed MAX_STEAL_ATTEMPTS times on a victim and is about to
\* try the injector again
C24_Witness ==
    \E c \in Cpus :
        /\ pc[c] = "victim"
        /\ attempts_remaining[c] = 0
        /\ active_cores = 2
        /\ cores <= MAX_CORES
        /\ \A i \in Slots : schedulers[i]

----------------------------------------------------------------------------
(* seize, lines 136-153: the pick of the victim, as a function of the       *)
(* executor's core_id and of the number of active cores                     *)

\* line 137: the executor with core_id id, which active_cores() counts,
\* starts a round and reads a as the number of active cores
PickRound(id, a) ==
    /\ pick_pc = "idle"
    /\ id < a
    /\ seize_core_id' = id
    /\ seize_active' = a
    /\ seize_index' = 0
    /\ pick_pc' = "round"
    /\ UNCHANGED <<rtVars, cpuVars, seizeVars, taskVars, run_errors,
                   stopVars, localVars, timeVars, calVars, tickVars, logVars, clockVars>>

\* lines 141-151: break on active <= 1, else the index: 1 with two active
\* cores, self.rand.random_range(0..active) with more
PickVictim ==
    /\ pick_pc = "round"
    /\ IF seize_active <= 1
         THEN pick_pc' = "break" /\ UNCHANGED seize_index
         ELSE pick_pc' = "picked" /\ \E i \in VictimIndices(seize_active) : seize_index' = i
    /\ UNCHANGED <<seize_core_id, seize_active>>
    /\ UNCHANGED <<rtVars, cpuVars, seizeVars, taskVars, run_errors,
                   stopVars, localVars, timeVars, calVars, tickVars, logVars, clockVars>>

PickNext ==
    \/ \E a \in 1 .. MaxActive, id \in 0 .. (MaxActive - 1) : PickRound(id, a)
    \/ PickVictim

PickSpec == Init /\ [][PickNext]_vars

\* C25: with three or more active cores the index picked is that of an
\* active core and is not the core_id of the executor that picks.
C25_VictimNotSelf ==
    pick_pc = "picked" /\ seize_active >= 3 =>
        seize_index \in 0 .. (seize_active - 1) /\ seize_index # seize_core_id

\* C26: with two active cores the executor with core_id 0 picks 1 and the
\* executor with core_id 1 picks 0.
C26_VictimIsOther ==
    pick_pc = "picked" /\ seize_active = 2 => seize_index = 1 - seize_core_id

----------------------------------------------------------------------------
(* C27 *)

\* the step moves the head of the queue of src to the tail of the scheduler
\* of the executor dst, which may be src itself
Transfers(src, dst) ==
    /\ Len(Queue(src)) > 0
    /\ Len(run_queue'[dst]) > 0
    /\ run_queue'[dst][Len(run_queue'[dst])] = Head(Queue(src))
    /\ IF src = INJ THEN sched_inject' = Tail(sched_inject)
         ELSE IF src = dst THEN run_queue'[src] = Append(Tail(run_queue[src]), Head(run_queue[src]))
         ELSE run_queue'[src] = Tail(run_queue[src])

\* C27: one seize() call moves at most MAX_TASKS_TO_STEAL tasks into the
\* scheduler of the executor that calls it, from the injector as from a
\* victim: the count of the call never passes the limit, every task the
\* call moves adds one to the count, and the count starts at 0 when the
\* Stealer is taken.
C27_SeizeLimit ==
    /\ [](\A c \in Cpus : pc[c] = "steal" =>
            /\ stolen[c] <= theft_count[c]
            /\ theft_count[c] <= MAX_TASKS_TO_STEAL)
    /\ [][\A c \in Cpus :
            /\ pc[c] # "steal" /\ pc'[c] = "steal" => stolen'[c] = 0
            /\ pc[c] = "steal" /\ pc'[c] = "steal" =>
                  IF stolen'[c] # stolen[c]
                    THEN stolen'[c] = stolen[c] + 1 /\ Transfers(stealer[c], self[c])
                    ELSE stealer'[c] = stealer[c] /\ theft_count'[c] = theft_count[c]]_vars

\* a seize has moved MAX_TASKS_TO_STEAL tasks out of the injector, which
\* has more
C27_Witness ==
    \E c \in Cpus :
        /\ pc[c] = "steal"
        /\ stealer[c] = INJ
        /\ stolen[c] = MAX_TASKS_TO_STEAL
        /\ Len(sched_inject) > 0
        /\ Len(run_queue[self[c]]) >= MAX_TASKS_TO_STEAL

----------------------------------------------------------------------------
(* C28 *)

\* slot i is counted by active_cores() and its InitOnce is not initialized
InWindow(i) == i < cores /\ ~schedulers[i]

\* Runtime::seize(i) can give nothing else than None
SeizeRefused(i) == InWindow(i) \/ Holders(i) # {}

\* C28: Runtime::seize(i) gives None for a slot that is counted and not yet
\* initialized and for a slot another cpu holds the Stealer of; a round of
\* seize that takes a Stealer takes it on an initialized slot nobody holds;
\* a round whose every pickable slot is refused takes none, counts as a
\* failed attempt and does not panic.
C28_RuntimeSeize ==
    /\ [](\A i \in Slots : SeizeRefused(i) => ~RuntimeSeize(i))
    /\ [][\A c \in Cpus : pc[c] = "victim" =>
            /\ stealer'[c] # stealer[c] =>
                  /\ stealer'[c] \in Slots
                  /\ schedulers[stealer'[c]]
                  /\ Holders(stealer'[c]) = {}
            /\ ( /\ attempts_remaining[c] > 0
                 /\ active_cores > 1
                 /\ VictimIndices(active_cores) \subseteq Slots
                 /\ \A i \in VictimIndices(active_cores) : SeizeRefused(i)
                 /\ pc'[c] # pc[c] \/ attempts_remaining'[c] # attempts_remaining[c] )
               => /\ stealer'[c] = stealer[c]
                  /\ pc'[c] = "victim"
                  /\ attempts_remaining'[c] = attempts_remaining[c] - 1]_vars

\* executor 0 has had a round fail on slot 1, which cpu 1 has claimed in
\* make_scheduler and not yet initialized
C28_Witness ==
    \E c \in Cpus :
        /\ pc[c] = "victim"
        /\ self[c] = 0
        /\ attempts_remaining[c] = MAX_STEAL_ATTEMPTS - 1
        /\ cores = 2
        /\ InWindow(1)
        /\ \E d \in Cpus : pc[d] = "make" /\ next[d] = 1

----------------------------------------------------------------------------
(* C29 *)

\* cpu c is in a first-time with() call on key k: it loaded a null pointer
\* and runs the init function
FirstTime(c, k) ==
    /\ frames[c] # <<>>
    /\ Top(c).key = k
    /\ Top(c).at = "init"
    /\ Top(c).ptr = 0

\* C29: two cpus with a block have two blocks, and a with() call works on
\* the block of its own cpu. A first-time call on a key constructs an
\* instance and publishes it in its own block whatever another cpu does on
\* the same key at the same time; publishing changes no slot of another
\* block and no count of another cpu; the instance a call hands to its
\* function and every populated slot of a cpu's block were constructed on
\* that cpu.
C29_PerCore ==
    /\ [](\A c \in Cpus : HasBlock(c) =>
            /\ \A d \in Cpus \ {c} : GS_BASE[d] # GS_BASE[c]
            /\ \A i \in 1 .. Len(frames[c]) : frames[c][i].block = GS_BASE[c]
            /\ \A k \in Indexed :
                  /\ SlotPtr(c, k) \in 0 .. made[c][k]
                  /\ made[c][k] > 0 /\ pc[c] = "out" => SlotPtr(c, k) = made[c][k]
            /\ frames[c] # <<>> /\ pc[c] = "out" /\ Top(c).at = "func" =>
                  Top(c).ptr = SlotPtr(c, Top(c).key) /\ Top(c).ptr \in 1 .. made[c][Top(c).key])
    /\ [][\A c \in Cpus, k \in Keys :
            FirstTime(c, k) /\ WithPublish(c) =>
                /\ pc'[c] = "out"
                /\ made'[c][k] = made[c][k] + 1
                /\ blocks'[GS_BASE[c]].locals[slot[k]] = made'[c][k]
                /\ Top(c)'.at = "func" /\ Top(c)'.ptr = made'[c][k]
                /\ \A b \in DOMAIN blocks : b # GS_BASE[c] => blocks'[b] = blocks[b]
                /\ \A d \in Cpus \ {c} : made'[d] = made[d] /\ frames'[d] = frames[d]]_vars

\* both cpus are inside the function of a with() call on one key, each with
\* the instance it constructed, each in its own block
C29_Witness ==
    \E k \in Keys :
        /\ \A c \in Cpus :
              /\ HasBlock(c)
              /\ pc[c] = "out"
              /\ frames[c] # <<>>
              /\ Top(c).key = k
              /\ Top(c).at = "func"
              /\ made[c][k] = 1
              /\ SlotPtr(c, k) = 1
        /\ GS_BASE[0] # GS_BASE[1]

----------------------------------------------------------------------------
(* C30 *)

\* cpu v is inside the poll of a task, which has not returned
Polling(v) == pc[v] = "poll"

\* cpu c makes a round of the seize loop in this step
RoundBy(c) ==
    /\ pc[c] = "victim"
    /\ attempts_remaining[c] > 0
    /\ active_cores > 1
    /\ VictimIndices(active_cores) \subseteq Slots
    /\ pc'[c] # pc[c] \/ attempts_remaining'[c] # attempts_remaining[c]

\* while some other cpu polls, a seize that finds tasks in a free injector
\* takes its Stealer
OthersNotBlocked ==
    \A c \in Cpus :
        /\ \E v \in Cpus \ {c} : Polling(v)
        /\ pc[c] \in {"seize", "retry"}
        /\ Len(sched_inject) > 0
        /\ Holders(INJ) = {}
        /\ pc'[c] # pc[c]
        => stealer'[c] = INJ /\ pc'[c] = "steal"

----------------------------------------------------------------------------
(* C31: run(), stop(), run() again *)

\* run, lines 104-110, with the info! of line 107: out of work; on a cleared
\* flag the shutdown is logged, run returns and the guard clears CORE_SCHED
RunReturn(c) ==
    /\ pc[c] = "check"
    /\ IF StopRequested(self[c])
         THEN /\ shut_down' = [shut_down EXCEPT ![self[c]] = TRUE]
              /\ CORE_SCHED' = [CORE_SCHED EXCEPT ![c] = GuardDrop(c)]
              /\ pc' = [pc EXCEPT ![c] = "out"]
              /\ self' = [self EXCEPT ![c] = None]
         ELSE /\ pc' = [pc EXCEPT ![c] = "tick"]
              /\ UNCHANGED <<CORE_SCHED, self, shut_down>>
    /\ UNCHANGED <<rtVars, locals, next, task, seizeVars, taskVars, run_errors,
                   stopVars, localVars, timeVars, calVars, tickVars, pickVars, clockVars>>

\* every spawn() before any executor exists; run() and stop() at any time
RerunNext ==
    \E c \in Cpus :
        \/ CoreLocalsInit(c)
        \/ InitTimer(c)
        \/ MakeSchedulerClaim(c)
        \/ MakeSchedulerInit(c)
        \/ SpawnEarly(c)
        \/ \E e \in Slots : Stop(c, e)
        \/ \E e \in Slots : Run(c, e)
        \/ TickDequeue(c)
        \/ PollDone(c)
        \/ TickEnd(c)
        \/ SeizeInjector(c)
        \/ SeizeVictim(c)
        \/ SeizeRetry(c)
        \/ StealOne(c)
        \/ StealEnd(c)
        \/ RunReturn(c)

RerunSpec == Init /\ [][RerunNext]_vars

\* C31: the running flag of an executor is set only by a run() on it and
\* cleared only by a stop() on it; a run() that returns through the shutdown
\* path leaves the flag clear and the cpu without scheduler; a run() on an
\* executor that has shut down and is not running, from a cpu with core
\* locals, sets the flag and enters the loop with the executor's slot as
\* core index and scheduler, and the count of claimed slots, the slot table
\* and the run queues are what they were.
C31_RunStopCycle ==
    [][/\ \A e \in Slots :
            /\ ~running[e] /\ running'[e] => \E c \in Cpus : Run(c, e)
            /\ running[e] /\ ~running'[e] => \E c \in Cpus : Stop(c, e)
       /\ \A c \in Cpus :
            pc[c] = "check" /\ pc'[c] = "out" =>
                /\ ~running'[self[c]]
                /\ shut_down'[self[c]]
                /\ CORE_SCHED'[c] = None
       /\ \A c \in Cpus, e \in Slots :
            shut_down[e] /\ ~running[e] /\ locals[c] /\ Run(c, e) =>
                /\ running'[e]
                /\ pc'[c] = "tick"
                /\ self'[c] = e
                /\ CORE_SCHED'[c] = e
                /\ UNCHANGED <<cores, schedulers, run_queue, sched_inject>>]_vars

\* the one executor there is has shut down once and is inside its loop
\* again, on the slot it was given
C31_Witness ==
    \E c \in Cpus :
        /\ cores = 1
        /\ shut_down[0]
        /\ running[0]
        /\ InLoop(c)
        /\ self[c] = 0
        /\ CORE_SCHED[c] = 0
        /\ \A d \in Cpus \ {c} : ~InLoop(d)

----------------------------------------------------------------------------
(* C32 *)

\* the step is a round of seize on cpu c that indexes past the slot array
SeizeOutOfBounds(c) == pc[c] = "victim" /\ pc'[c] = "halt"

\* C32: the count active_cores() reads is at most MAX_CORES in every state,
\* the indices a victim is drawn from are indices of the slot array, and no
\* round of seize halts its cpu on an index past the array.
C32_ActiveInBounds ==
    /\ [](active_cores <= MAX_CORES)
    /\ [](active_cores > 1 => VictimIndices(active_cores) \subseteq Slots)
    /\ [][\A c \in Cpus : ~SeizeOutOfBounds(c)]_vars

----------------------------------------------------------------------------
(* C33 *)

\* C33: a seize that has taken a Stealer keeps that one Stealer until its
\* spawn_n returns, and then returns the count moved: to tick when it is
\* positive and to the stop check when it is 0, never to another victim
\* round or to the injector. A Stealer taken on a victim with one queued
\* task has limit 0 and moves nothing.
C33_OneTransfer ==
    /\ [](\A c \in Cpus :
            pc[c] = "steal" /\ stealer[c] \in Slots /\ snapshot[c] = 1 =>
                theft_count[c] = 0 /\ stolen[c] = 0)
    /\ [][\A c \in Cpus : pc[c] = "steal" =>
            /\ stealer[c] # None
            /\ pc'[c] = "steal" => stealer'[c] = stealer[c]
            /\ pc'[c] # "steal" =>
                  /\ pc'[c] = IF stolen[c] > 0 THEN "tick" ELSE "check"
                  /\ stealer'[c] = None
                  /\ attempts_remaining'[c] = attempts_remaining[c]
                  /\ UNCHANGED <<run_queue, sched_inject>>]_vars

\* a thief holds the Stealer of another executor's scheduler, which has one
\* task queued, with limit 0
C33_Witness ==
    \E c \in Cpus :
        /\ pc[c] = "steal"
        /\ stealer[c] \in Slots
        /\ stealer[c] # self[c]
        /\ snapshot[c] = 1
        /\ Len(run_queue[stealer[c]]) = 1
        /\ theft_count[c] = 0

----------------------------------------------------------------------------
(* C34: spawn() through CORE_SCHED.with *)

\* the key of `static CORE_SCHED: CoreLocal<..>`, the first of Keys
CORE_SCHED_KEY == 1

\* CoreLocals::with on key k and block b, run to its end with no call nested
\* in it: the slot index is given on the first touch, a null slot pointer is
\* populated with a new instance
WithWhole(c, k, b) ==
    LET idx == IF slot[k] = None THEN NEXT_SLOT ELSE slot[k]
    IN  /\ slot' = [slot EXCEPT ![k] = idx]
        /\ NEXT_SLOT' = IF slot[k] = None THEN NEXT_SLOT + 1 ELSE NEXT_SLOT
        /\ IF blocks[b].locals[idx] = 0
             THEN /\ made' = [made EXCEPT ![c][k] = @ + 1]
                  /\ blocks' = [blocks EXCEPT ![b].locals[idx] = made[c][k] + 1]
             ELSE UNCHANGED <<made, blocks>>

\* spawn(future) on cpu c, lines 78-86: CORE_SCHED.with(..) is
\* CoreLocals::current().with(..): current() panics when try_current() is
\* None; otherwise the closure enqueues on the cell's scheduler or on the
\* injector
SpawnCall(c) ==
    /\ pc[c] \in {"out", "poll"}
    /\ frames[c] = <<>>
    /\ spawned < MaxTasks
    /\ slot[CORE_SCHED_KEY] \in LocalSlots \cup {None}
    /\ IF try_current(c) = None \/ try_current(c) \notin DOMAIN blocks
         THEN /\ Halt(c)
              /\ UNCHANGED <<run_queue, sched_inject, spawned, slot, NEXT_SLOT, made, blocks>>
         ELSE /\ WithWhole(c, CORE_SCHED_KEY, try_current(c))
              /\ spawned' = spawned + 1
              /\ run_queue' = [i \in Slots |->
                                 Enqueued(run_queue[i], i, SpawnTargets(c), spawned + 1)]
              /\ sched_inject' = Enqueued(sched_inject, INJ, SpawnTargets(c), spawned + 1)
              /\ UNCHANGED pc
    /\ UNCHANGED <<cores, schedulers, running, timer, polled,
                   CORE_SCHED, locals, self, next, task, seizeVars, run_errors>>
    /\ UNCHANGED <<GS_BASE, frames, warned,
                   stopVars, timeVars, calVars, tickVars, pickVars, logVars, clockVars>>

\* one executor; CoreLocals::init, spawn(), run() and stop() at any time
SpawnNext ==
    \E c \in Cpus :
        \/ LocalsInit(c)
        \/ InitTimer(c)
        \/ SoleExecutor(c)
        \/ MakeSchedulerInit(c)
        \/ SpawnCall(c)
        \/ \E e \in Slots : Stop(c, e)
        \/ \E e \in Slots : RunOwned(c, e)
        \/ LoopStep(c)

SpawnSpec == LocalBoot /\ [][SpawnNext]_vars

\* C34: a spawn() on a cpu on which CoreLocals::init() has never run halts
\* the cpu and leaves the injector, every run queue and the task count as
\* they were; every step that adds a task to the injector is a spawn() on a
\* cpu that has its block and whose CORE_SCHED cell holds no scheduler.
C34_SpawnNeedsLocals ==
    /\ [](\A c \in Cpus : locals[c] <=> HasBlock(c))
    /\ [][/\ \A c \in Cpus :
               ~locals[c] /\ SpawnCall(c) =>
                   /\ pc'[c] = "halt"
                   /\ UNCHANGED <<run_queue, sched_inject, spawned, blocks, slot>>
          /\ Len(sched_inject') > Len(sched_inject) =>
               \E c \in Cpus :
                   /\ SpawnCall(c)
                   /\ HasBlock(c)
                   /\ CORE_SCHED[c] = None
                   /\ sched_inject' = Append(sched_inject, spawned + 1)
                   /\ UNCHANGED run_queue]_vars

\* one cpu halted over the GS base the firmware left, with nothing queued
\* anywhere, no executor made and no timer installed: it halted in spawn();
\* the other cpu has its block
C34_Witness ==
    \E c, d \in Cpus :
        /\ GS_BASE[c] = Foreign
        /\ pc[c] = "halt"
        /\ ~locals[c]
        /\ HasBlock(d)
        /\ cores = 0
        /\ ~timer
        /\ spawned = 0
        /\ sched_inject = <<>>
        /\ \A i \in Slots : run_queue[i] = <<>>

----------------------------------------------------------------------------
(* C35: runtime::init() *)

InitOrder_LocalsFirst == <<"init_locals", "init_timer", "init_new">>
\* init, lines 93-97: init_timer(), CoreLocals::init(), CoreExecutor::new()
InitOrder == <<"init_timer", "init_locals", "init_new">>

\* the call init() makes after the one of stage s
StageAfter(s) == InitOrder[(CHOOSE i \in 1 .. 2 : InitOrder[i] = s) + 1]

\* runtime::init() is called on cpu c
RuntimeInit(c) ==
    /\ pc[c] = "out"
    /\ pc' = [pc EXCEPT ![c] = InitOrder[1]]
    /\ UNCHANGED <<rtVars, CORE_SCHED, locals, self, next, task, seizeVars, taskVars,
                   run_errors, platVars>>

\* init_timer, lines 84-85, inside init(): MAITAKE_TIMER.get_or_init(..)
RuntimeInitGet(c) ==
    /\ pc[c] = "init_timer"
    /\ MAITAKE_TIMER' = GetOrInit(MAITAKE_TIMER, NewTimer(c))
    /\ timer_ref' = [timer_ref EXCEPT ![c] = MAITAKE_TIMER']
    /\ timer' = TRUE
    /\ pc' = [pc EXCEPT ![c] = "init_set"]
    /\ UNCHANGED <<cores, schedulers, run_queue, sched_inject, running,
                   CORE_SCHED, locals, self, next, task, seizeVars, taskVars,
                   run_errors, stopVars, localVars, calVars, tickVars, pickVars, logVars, clockVars,
                   GLOBAL_TIMER>>

\* init_timer, lines 86-87, inside init(): set_global_timer(timer).expect(..)
RuntimeInitSet(c) ==
    /\ pc[c] = "init_set"
    /\ IF GLOBAL_TIMER = None
         THEN /\ GLOBAL_TIMER' = timer_ref[c]
              /\ pc' = [pc EXCEPT ![c] = StageAfter("init_timer")]
         ELSE /\ Halt(c)
              /\ UNCHANGED GLOBAL_TIMER
    /\ UNCHANGED <<rtVars, CORE_SCHED, locals, self, next, task, seizeVars, taskVars,
                   run_errors, stopVars, localVars, calVars, tickVars, pickVars, logVars, clockVars,
                   MAITAKE_TIMER, timer_ref>>

\* CoreLocals::init() inside init()
RuntimeInitLocals(c) ==
    /\ pc[c] = "init_locals"
    /\ IF is_initialized(c)
         THEN /\ warned' = [warned EXCEPT ![c] = TRUE]
              /\ UNCHANGED <<GS_BASE, blocks, locals>>
         ELSE LET ptr == Len(blocks) + 1 IN
              /\ blocks' = Append(blocks, NewBlock(ptr))
              /\ GS_BASE' = [GS_BASE EXCEPT ![c] = ptr]
              /\ locals' = [locals EXCEPT ![c] = TRUE]
              /\ UNCHANGED warned
    /\ pc' = [pc EXCEPT ![c] = StageAfter("init_locals")]
    /\ UNCHANGED <<NEXT_SLOT, slot, frames, made, execVars>>

\* CoreExecutor::new() inside init(): make_scheduler, line 50
RuntimeInitNew(c) ==
    /\ pc[c] = "init_new"
    /\ next' = [next EXCEPT ![c] = cores]
    /\ cores' = FetchAdd(cores)
    /\ pc' = [pc EXCEPT ![c] = "make"]
    /\ UNCHANGED <<schedulers, run_queue, sched_inject, running, timer,
                   CORE_SCHED, locals, self, task, seizeVars, taskVars, run_errors>>
    /\ UNCHANGED platVars

\* the cpu that init() has returned an executor to runs it
RunMine(c, e) == locals[c] /\ RunOwned(c, e)

\* init() from any cpu at any time; the executor it returns is run and
\* stopped; no other call makes a timer, a block or an executor
InitNext ==
    \E c \in Cpus :
        \/ RuntimeInit(c)
        \/ RuntimeInitGet(c)
        \/ RuntimeInitSet(c)
        \/ RuntimeInitLocals(c)
        \/ RuntimeInitNew(c)
        \/ MakeSchedulerInit(c)
        \/ \E e \in Slots : Stop(c, e)
        \/ \E e \in Slots : RunMine(c, e)
        \/ IdleStep(c)

InitSpec == Init /\ [][InitNext]_vars

\* cpu c is inside init() and has not got past init_timer()
InInitTimer(c) == pc[c] \in {"init_timer", "init_set"}

\* C35: an init() that is in its timer initialization while the global timer
\* is installed halts its cpu there and changes neither the core locals of
\* any cpu nor the count of claimed slots nor the slot table; so one init()
\* at most gets past init_timer(): one cpu at most has core locals and one
\* slot at most is claimed.
C35_SecondInit ==
    /\ [](/\ Cardinality({c \in Cpus : locals[c]}) <= 1
          /\ Len(blocks) <= 1
          /\ cores <= 1
          /\ \A i \in Slots : schedulers[i] => i = 0)
    /\ [][\A c \in Cpus :
            InInitTimer(c) /\ GLOBAL_TIMER # None /\ pc'[c] # pc[c] =>
                /\ pc'[c] = IF pc[c] = "init_timer" THEN "init_set" ELSE "halt"
                /\ UNCHANGED <<cores, schedulers, next, locals, GS_BASE, blocks>>]_vars

\* the first init() has returned its executor; the second, on the other
\* cpu, has halted holding the timer of the first, with no core locals and
\* no slot
C35_Witness ==
    \E c, d \in Cpus :
        /\ pc[c] = "halt"
        /\ GLOBAL_TIMER # None
        /\ timer_ref[c] = GLOBAL_TIMER
        /\ NewTimer(c) # GLOBAL_TIMER
        /\ ~locals[c]
        /\ GS_BASE[c] = 0
        /\ locals[d]
        /\ cores = 1
        /\ schedulers[0]
        /\ pc[d] \in {"out", "tick"}

----------------------------------------------------------------------------
(* C36: the Lazy<usize> of a key, touched from several cpus *)

NextSlotAfter_Same(n) == n
\* next_slot, line 152: what NEXT_SLOT.fetch_add(1, ..) leaves in NEXT_SLOT
NextSlotAfter(n) == n + 1

\* with, line 108: *key.slot. On a Lazy not yet touched the cpu becomes its
\* initializer; on a ready one it reads the index and goes on to the load
\* of the slot pointer; while another cpu initializes it, it waits
WithTouch(c) ==
    /\ pc[c] = "out"
    /\ frames[c] # <<>>
    /\ Top(c).at = "slot"
    /\ slot[Top(c).key] # Initializing
    /\ IF slot[Top(c).key] = None
         THEN /\ slot' = [slot EXCEPT ![Top(c).key] = Initializing]
              /\ frames' = SetTop(c, [Top(c) EXCEPT !.at = "lazy"])
              /\ UNCHANGED pc
         ELSE /\ WithLoad(c, slot[Top(c).key])
              /\ UNCHANGED slot
    /\ UNCHANGED <<NEXT_SLOT, GS_BASE, blocks, made, warned, locals, execVars>>

\* next_slot, lines 150-162, run by the initializer of the Lazy: fetch_add,
\* the assert, and the index is stored; then the load of the slot pointer
WithNextSlot(c) ==
    /\ pc[c] = "out"
    /\ frames[c] # <<>>
    /\ Top(c).at = "lazy"
    /\ NEXT_SLOT' = NextSlotAfter(NEXT_SLOT)
    /\ IF NextSlotOk(NEXT_SLOT)
         THEN /\ slot' = [slot EXCEPT ![Top(c).key] = NEXT_SLOT]
              /\ WithLoad(c, NEXT_SLOT)
         ELSE /\ Halt(c)
              /\ UNCHANGED <<slot, frames>>
    /\ UNCHANGED <<GS_BASE, blocks, made, warned, locals, execVars>>

LazyNext ==
    \E c \in Cpus :
        \/ LocalsInit(c)
        \/ \E k \in Keys : WithEnter(c, k)
        \/ WithTouch(c)
        \/ WithNextSlot(c)
        \/ WithPublish(c)
        \/ WithFunc(c)

LazySpec == LocalBoot /\ [][LazyNext]_vars

\* the cpus that are the initializer of the Lazy of key k
Initializers(k) ==
    {c \in Cpus : frames[c] # <<>> /\ Top(c).key = k /\ Top(c).at = "lazy"}

\* C36: two keys with an index have two indices; the Lazy of a key has one
\* initializer at most, next_slot has run once for every key that has an
\* index or an initializer that halted, an index once given never changes,
\* and every with() call on a key that is past the slot lookup, on whatever
\* cpu, finds the key indexed; a populated slot pointer of any block sits at
\* the index of a key.
C36_KeyIndexOnce ==
    /\ [](/\ \A k, l \in Indexed : k # l => slot[k] # slot[l]
          /\ \A k \in Keys :
                /\ Cardinality(Initializers(k)) <= 1
                /\ Initializers(k) # {} => slot[k] = Initializing
          /\ NEXT_SLOT = Cardinality({k \in Keys :
                            slot[k] # None /\ \A c \in Initializers(k) : pc[c] = "halt"})
          /\ \A c \in Cpus : \A i \in 1 .. Len(frames[c]) :
                frames[c][i].at \in {"init", "func"} => frames[c][i].key \in Indexed
          /\ \A b \in DOMAIN blocks, i \in LocalSlots :
                blocks[b].locals[i] # 0 => \E k \in Indexed : slot[k] = i)
    /\ [][\A k \in Keys :
            /\ slot[k] \in LocalSlots => slot'[k] = slot[k]
            /\ slot[k] = Initializing => slot'[k] # None
            /\ slot'[k] \in LocalSlots /\ slot[k] \notin LocalSlots =>
                  /\ slot[k] = Initializing
                  /\ slot'[k] = NEXT_SLOT
                  /\ \A l \in Indexed : slot[l] < slot'[k]]_vars

\* both cpus are past the slot lookup of one key, whose index is not 0:
\* another key was touched first
C36_Witness ==
    \E k, l \in Keys :
        /\ k # l
        /\ slot[l] = 0
        /\ slot[k] = 1
        /\ \A c \in Cpus :
              /\ frames[c] # <<>>
              /\ Top(c).key = k
              /\ Top(c).at \in {"init", "func"}
              /\ pc[c] = "out"

----------------------------------------------------------------------------
(* C37: new_clock *)

\* new_clock, line 66: the nanoseconds of a second
NANOS_PER_SEC == 1000000000

\* the tick frequencies the Timestamp protocol may report, in Hz
Frequencies == {0, 1, 3, 1000000, 999999999, NANOS_PER_SEC, NANOS_PER_SEC + 1, 2 * NANOS_PER_SEC}

\* new_clock, lines 61-70: get_timestamp_properties() is Ok and reports
\* frequency f; tick_ns = 1_000_000_000 / f, which panics on f = 0
NewClockUefi(f) ==
    /\ clock_pc = "idle"
    /\ ts_frequency' = f
    /\ IF f = 0
         THEN clock_pc' = "divzero" /\ UNCHANGED clock_tick
         ELSE clock_pc' = "built" /\ clock_tick' = NANOS_PER_SEC \div f
    /\ UNCHANGED <<rtVars, cpuVars, seizeVars, taskVars, run_errors,
                   stopVars, localVars, timeVars, calVars, tickVars, pickVars, logVars>>

\* new_clock, lines 71-74: get_timestamp_properties() is Err, the clock is
\* derived from rdtsc
NewClockRdtsc ==
    /\ clock_pc = "idle"
    /\ clock_pc' = "calibrate"
    /\ UNCHANGED <<ts_frequency, clock_tick>>
    /\ UNCHANGED <<rtVars, cpuVars, seizeVars, taskVars, run_errors,
                   stopVars, localVars, timeVars, calVars, tickVars, pickVars, logVars>>

\* the call of _duration_from_rdtsc at line 74
NewClockCalStart == clock_pc = "calibrate" /\ CalStart

\* new_clock, lines 74-78: _duration_from_rdtsc() has returned, Clock::new
NewClockBuild ==
    /\ clock_pc = "calibrate"
    /\ cal_pc = "done"
    /\ clock_pc' = "built"
    /\ clock_tick' = duration
    /\ UNCHANGED ts_frequency
    /\ UNCHANGED <<rtVars, cpuVars, seizeVars, taskVars, run_errors,
                   stopVars, localVars, timeVars, calVars, tickVars, pickVars, logVars>>

ClockNext ==
    \/ \E f \in Frequencies : NewClockUefi(f)
    \/ NewClockRdtsc
    \/ NewClockCalStart
    \/ CalMeasure
    \/ CalShift
    \/ NewClockBuild

ClockSpec == Init /\ [][ClockNext]_vars

\* C37: a clock that new_clock has built has a tick duration of at least
\* 1 ns; on the firmware path it is floor(1_000_000_000 / frequency) ns.
C37_PositiveTick ==
    clock_pc = "built" =>
        /\ clock_tick >= 1
        /\ ts_frequency # None => clock_tick = NANOS_PER_SEC \div ts_frequency

----------------------------------------------------------------------------
(* C38: the steps inside one calibration attempt *)

\* C38: whatever the counter advanced by over the measurement interval,
\* calibration is never ended by one of its intermediate steps: neither the
\* narrowing of the shifted count to 32 bits nor the division of the interval
\* by the shifted count fails; the shifted count a step works on fits 32 bits
\* and is not zero.
C38_NoStepFails ==
    /\ cal_pc \notin {"overflow", "divzero"}
    /\ cal_pc = "shift" /\ sft < TSC_BITS =>
          ShiftRight(elapsed, sft) \in 1..U32_MAX

====
